---- MODULE Spec2Model ----
(***************************************************************************)
(* Dep-info fingerprinting of cargo:                                        *)
(*   src/src/cargo/core/compiler/fingerprint/dep_info.rs                    *)
(*                                                                          *)
(* Bytes are integers 0..255.  A String, a str and a PathBuf are the        *)
(* sequence of their bytes (a String is such a sequence that is valid       *)
(* UTF-8).  Option<T> is a sequence of length 0 (None) or 1 (Some).         *)
(* A Rust tuple is a TLA+ tuple.                                            *)
(***************************************************************************)
EXTENDS Integers, Sequences, FiniteSets, TLC

VARIABLES
    rec,    \* codec: the EncodedDepInfo handed to serialize
    data,   \* codec: the content of the persisted file, handed to parse
    how,    \* codec: how data was obtained from rec
    res,    \* codec: what EncodedDepInfo::parse did with data
    pdi,    \* codec: the call of parse_dep_info on the persisted file
    native, \* unit: the content of rustc's dep-info file, None when there is none
    disk,   \* unit: the content of cargo's dep-info file, None when there is none
    cfg,    \* unit: the arguments the calls for this unit are made with
    call,   \* unit: the last call of translate_dep_info
    dec,    \* unit: the last call of parse_dep_info
    compiles, \* unit: how often rustc ran
    src,    \* text: the lines of a dep-info file of rustc
    rdi,    \* text: the call of parse_rustc_dep_info on that file
    sum,    \* checksum: a Checksum
    shown,  \* checksum: formatting sum, and the text as it is now
    back,   \* checksum: the call of Checksum::from_str on the text
    contents, \* compute: the reader, its bytes and how many it has handed out
    digest, \* compute: the locals of Checksum::compute while it runs
    computed, \* compute: what Checksum::compute returned
    fsys,   \* workers: the content of each dep-info file, None when it is not there
    jobs,   \* workers: where the worker of each unit is, and what it holds
    lp      \* loop: parse_rustc_dep_info on its way through the lines of a file

vars == <<rec, data, how, res, pdi, native, disk, cfg, call, dec, compiles, src, rdi,
          sum, shown, back, contents, digest, computed, fsys, jobs, lp>>

\* The codec on its own; one compilation unit with its two dep-info files
codec_vars == <<rec, data, how, res, pdi>>

unit_vars == <<native, disk, cfg, call, dec, compiles>>

\* The text of rustc on its own
text_vars == <<src, rdi>>

\* A checksum and its text form
sum_vars == <<sum, shown, back>>

\* Checksum::compute over a reader
hash_vars == <<contents, digest, computed>>

\* Two workers, each with the dep-info files of its unit
pair_vars == <<fsys, jobs>>

\* The loop of parse_rustc_dep_info, a line at a time
loop_vars == <<lp>>

\* What the steps of one part leave alone
beside_codec == <<unit_vars, text_vars, sum_vars, hash_vars, pair_vars, loop_vars>>

beside_unit == <<codec_vars, text_vars, sum_vars, hash_vars, pair_vars, loop_vars>>

beside_text == <<codec_vars, unit_vars, sum_vars, hash_vars, pair_vars, loop_vars>>

beside_sum == <<codec_vars, unit_vars, text_vars, hash_vars, pair_vars, loop_vars>>

beside_hash == <<codec_vars, unit_vars, text_vars, sum_vars, pair_vars, loop_vars>>

beside_pair == <<codec_vars, unit_vars, text_vars, sum_vars, hash_vars, loop_vars>>

beside_loop == <<codec_vars, unit_vars, text_vars, sum_vars, hash_vars, pair_vars>>

----------------------------------------------------------------------------
(* Option<T> *)

None == <<>>

Some(v) == <<v>>

is_some(o) == Len(o) = 1

unwrap(o) == o[1]

\* Option::zip
zip(a, b) == IF is_some(a) /\ is_some(b) THEN Some(<<unwrap(a), unwrap(b)>>) ELSE None

(* DepInfoPathType *)

PackageRootRelative == "PackageRootRelative"

TargetRootRelative == "TargetRootRelative"

----------------------------------------------------------------------------
(* Integers on the wire.  TLC's integers are 32-bit signed, so a decoded    *)
(* value of 2^31 or more is represented by 2^31-1: every length and every   *)
(* count of the model is far below, and all such values exceed them alike.  *)

\* u32::to_be_bytes in place of u32::to_le_bytes
u32_to_be_bytes(val) ==
    << (val \div 16777216) % 256, (val \div 65536) % 256, (val \div 256) % 256, val % 256 >>

\* u32::to_le_bytes(val as u32), for val < 2^31
u32_to_le_bytes(val) ==
    << val % 256, (val \div 256) % 256, (val \div 65536) % 256, (val \div 16777216) % 256 >>

\* u64::to_le_bytes(val), for val < 2^31 (the upper four bytes are zero)
u64_to_le_bytes(val) == u32_to_le_bytes(val) \o <<0, 0, 0, 0>>

\* u32::from_le_bytes
u32_from_le_bytes(b) ==
    IF b[4] >= 128 THEN 2147483647
    ELSE b[1] + 256 * b[2] + 65536 * b[3] + 16777216 * b[4]

\* u64::from_le_bytes
u64_from_le_bytes(b) ==
    IF b[5] # 0 \/ b[6] # 0 \/ b[7] # 0 \/ b[8] # 0 THEN 2147483647
    ELSE u32_from_le_bytes(SubSeq(b, 1, 4))

\* The length of the UTF-8 sequence a byte starts, 0 when it starts none
utf8_char_width(c) ==
    IF c < 128 THEN 1
    ELSE IF c >= 194 /\ c <= 223 THEN 2
    ELSE IF c >= 224 /\ c <= 239 THEN 3
    ELSE IF c >= 240 /\ c <= 244 THEN 4
    ELSE 0

\* A continuation byte
utf8_is_cont(c) == c >= 128 /\ c <= 191

\* The second byte a first byte admits: no overlong forms, no surrogates,
\* nothing above U+10FFFF
utf8_second(c, d) ==
    IF c = 224 THEN d >= 160 /\ d <= 191
    ELSE IF c = 237 THEN d >= 128 /\ d <= 159
    ELSE IF c = 240 THEN d >= 144 /\ d <= 191
    ELSE IF c = 244 THEN d >= 128 /\ d <= 143
    ELSE utf8_is_cont(d)

\* A whole character starts at b[i] and the next one, if any, behind it
utf8_char_at(b, i) ==
    /\ utf8_char_width(b[i]) > 0
    /\ i + utf8_char_width(b[i]) - 1 <= Len(b)
    /\ utf8_char_width(b[i]) >= 2 => utf8_second(b[i], b[i + 1])
    /\ \A j \in (i + 2)..(i + utf8_char_width(b[i]) - 1) : utf8_is_cont(b[j])
    /\ i + utf8_char_width(b[i]) <= Len(b) => ~utf8_is_cont(b[i + utf8_char_width(b[i])])

\* str::from_utf8 / String::from_utf8: is b[i..] well-formed UTF-8
utf8_from(b, i) ==
    /\ i <= Len(b) => ~utf8_is_cont(b[i])
    /\ \A j \in i..Len(b) : ~utf8_is_cont(b[j]) => utf8_char_at(b, j)

\* String::from_utf8(v).ok() / str::from_utf8(v).ok()
from_utf8(v) == IF utf8_from(v, 1) THEN Some(v) ELSE None

\* paths::bytes2path(bytes).ok(): on unix a path is any byte sequence
bytes2path(bytes) == Some(bytes)

\* paths::path2bytes(path): on unix the bytes of the path
path2bytes(path) == path

----------------------------------------------------------------------------
(* EncodedDepInfo::parse and its readers.  A reader gets the slice that is  *)
(* left and returns its Option result with the slice it leaves.             *)

\* The number of entries the allocator of the machine can hand out at once.
MemLimit == 268435456

\* Vec::with_capacity(n): the request is made before a single entry is read;
\* beyond what the machine has, the allocator may refuse (oom) and the
\* process aborts ("memory allocation of N bytes failed").
with_capacity(n, oom) == IF n > MemLimit /\ oom THEN "abort" ELSE "ok"

read_usize(bytes) ==
    IF Len(bytes) >= 4
    THEN [val |-> Some(u32_from_le_bytes(SubSeq(bytes, 1, 4))),
          rest |-> SubSeq(bytes, 5, Len(bytes))]
    ELSE [val |-> None, rest |-> bytes]

read_u64(bytes) ==
    IF Len(bytes) >= 8
    THEN [val |-> Some(u64_from_le_bytes(SubSeq(bytes, 1, 8))),
          rest |-> SubSeq(bytes, 9, Len(bytes))]
    ELSE [val |-> None, rest |-> bytes]

read_u8(bytes) ==
    IF Len(bytes) >= 1
    THEN [val |-> Some(bytes[1]), rest |-> SubSeq(bytes, 2, Len(bytes))]
    ELSE [val |-> None, rest |-> bytes]

\* read_bool that takes only 1 for true
read_bool_one(bytes) ==
    LET b == read_u8(bytes)
    IN  [val |-> IF is_some(b.val) THEN Some(unwrap(b.val) = 1) ELSE None, rest |-> b.rest]

read_bool(bytes) ==
    LET b == read_u8(bytes)
    IN  [val |-> IF is_some(b.val) THEN Some(unwrap(b.val) # 0) ELSE None, rest |-> b.rest]

\* The length is consumed even when the bytes it announces are not there.
read_bytes(bytes) ==
    LET n == read_usize(bytes)
    IN  IF ~is_some(n.val) THEN [val |-> None, rest |-> n.rest]
        ELSE IF Len(n.rest) >= unwrap(n.val)
        THEN [val |-> Some(SubSeq(n.rest, 1, unwrap(n.val))),
              rest |-> SubSeq(n.rest, unwrap(n.val) + 1, Len(n.rest))]
        ELSE [val |-> None, rest |-> n.rest]

\* What one iteration of the file loop read, for the properties: each field
\* is the Option the reader returned, None also when it was not reached.
FileRead(kind, path, has_checksum, file_len, checksum_len, checksum, pushed) ==
    [kind |-> kind, path |-> path, has_checksum |-> has_checksum, file_len |-> file_len,
     checksum_len |-> checksum_len, checksum |-> checksum, pushed |-> pushed]

\* What one iteration of the env loop read.
EnvRead(key_len, key, has_value, value_len, value, pushed) ==
    [key_len |-> key_len, key |-> key, has_value |-> has_value,
     value_len |-> value_len, value |-> value, pushed |-> pushed]

\* One iteration: val is Some(entry), or None (parse returns None).
Iteration(val, rest, read) == [val |-> val, rest |-> rest, read |-> read]

\* Lines 107-116 with has_checksum true: both reads are made, whatever the
\* first gave, and the entry is pushed, with or without its checksum.
file_checksum(kind, ty, path_bytes, file_len, checksum_bytes) ==
    LET checksum_string ==
            IF is_some(checksum_bytes.val) THEN from_utf8(unwrap(checksum_bytes.val)) ELSE None
    IN  Iteration(Some(<<ty, unwrap(bytes2path(path_bytes)), zip(file_len.val, checksum_string)>>),
                  checksum_bytes.rest,
                  FileRead(Some(kind), Some(path_bytes),
                           Some(TRUE), file_len.val, read_usize(file_len.rest).val,
                           checksum_bytes.val, TRUE))

file_read_checksum(kind, ty, path_bytes, file_len) ==
    file_checksum(kind, ty, path_bytes, file_len, read_bytes(file_len.rest))

\* Lines 106-116.
file_has_checksum(kind, ty, path_bytes, has_checksum) ==
    IF ~is_some(has_checksum.val)
    THEN Iteration(None, has_checksum.rest,
                   FileRead(Some(kind), Some(path_bytes),
                            None, None, None, None, FALSE))
    ELSE IF unwrap(has_checksum.val)
    THEN file_read_checksum(kind, ty, path_bytes, read_u64(has_checksum.rest))
    ELSE Iteration(Some(<<ty, unwrap(bytes2path(path_bytes)), None>>), has_checksum.rest,
                   FileRead(Some(kind), Some(path_bytes),
                            Some(FALSE), None, None, None, TRUE))

\* Lines 104-105.
file_path(kind, ty, path_bytes) ==
    IF ~is_some(path_bytes.val)
    THEN Iteration(None, path_bytes.rest,
                   FileRead(Some(kind), None,
                            None, None, None, None, FALSE))
    ELSE IF ~is_some(bytes2path(unwrap(path_bytes.val)))
    THEN Iteration(None, path_bytes.rest,
                   FileRead(Some(kind), path_bytes.val,
                            None, None, None, None, FALSE))
    ELSE file_has_checksum(kind, ty, unwrap(path_bytes.val), read_bool(path_bytes.rest))

\* Lines 99-103 with the match ending in `_ => TargetRootRelative`
file_kind_lenient(kind) ==
    IF ~is_some(kind.val)
    THEN Iteration(None, kind.rest, FileRead(None, None, None, None, None, None, FALSE))
    ELSE IF unwrap(kind.val) = 0
    THEN file_path(unwrap(kind.val), PackageRootRelative, read_bytes(kind.rest))
    ELSE file_path(unwrap(kind.val), TargetRootRelative, read_bytes(kind.rest))

\* Lines 99-103.
file_kind(kind) ==
    IF ~is_some(kind.val)
    THEN Iteration(None, kind.rest, FileRead(None, None, None, None, None, None, FALSE))
    ELSE IF unwrap(kind.val) = 0
    THEN file_path(unwrap(kind.val), PackageRootRelative, read_bytes(kind.rest))
    ELSE IF unwrap(kind.val) = 1
    THEN file_path(unwrap(kind.val), TargetRootRelative, read_bytes(kind.rest))
    ELSE Iteration(None, kind.rest, FileRead(kind.val, None, None, None, None, None, FALSE))

\* The body of the loop of lines 98-117.
parse_file(bytes) == file_kind(read_u8(bytes))

\* Line 125.
env_value(key_len, key, val_bytes, value_len) ==
    IF ~is_some(val_bytes.val)
    THEN Iteration(None, val_bytes.rest,
                   EnvRead(key_len, Some(key), Some(1), value_len, None, FALSE))
    ELSE IF ~is_some(from_utf8(unwrap(val_bytes.val)))
    THEN Iteration(None, val_bytes.rest,
                   EnvRead(key_len, Some(key), Some(1), value_len, val_bytes.val, FALSE))
    ELSE Iteration(Some(<<key, from_utf8(unwrap(val_bytes.val))>>), val_bytes.rest,
                   EnvRead(key_len, Some(key), Some(1), value_len, val_bytes.val, TRUE))

\* Lines 123-128.
env_has_value(key_len, key, has_value) ==
    IF ~is_some(has_value.val)
    THEN Iteration(None, has_value.rest, EnvRead(key_len, Some(key), None, None, None, FALSE))
    ELSE IF unwrap(has_value.val) = 0
    THEN Iteration(Some(<<key, None>>), has_value.rest,
                   EnvRead(key_len, Some(key), has_value.val, None, None, TRUE))
    ELSE IF unwrap(has_value.val) = 1
    THEN env_value(key_len, key, read_bytes(has_value.rest), read_usize(has_value.rest).val)
    ELSE Iteration(None, has_value.rest,
                   EnvRead(key_len, Some(key), has_value.val, None, None, FALSE))

\* Line 122 with the key taken as it is (String::from_utf8_lossy and the like)
env_key_unchecked(key_len, key_bytes) ==
    IF ~is_some(key_bytes.val)
    THEN Iteration(None, key_bytes.rest, EnvRead(key_len, None, None, None, None, FALSE))
    ELSE env_has_value(key_len, unwrap(key_bytes.val), read_u8(key_bytes.rest))

\* Line 122.
env_key(key_len, key_bytes) ==
    IF ~is_some(key_bytes.val)
    THEN Iteration(None, key_bytes.rest, EnvRead(key_len, None, None, None, None, FALSE))
    ELSE IF ~is_some(from_utf8(unwrap(key_bytes.val)))
    THEN Iteration(None, key_bytes.rest,
                   EnvRead(key_len, key_bytes.val, None, None, None, FALSE))
    ELSE env_has_value(key_len, unwrap(key_bytes.val), read_u8(key_bytes.rest))

\* The body of the loop of lines 121-129.
parse_env(bytes) == env_key(read_usize(bytes).val, read_bytes(bytes))

\* for _ in 0..nfiles: n iterations are left
RECURSIVE parse_files(_, _, _, _)
parse_files(bytes, n, files, reads) ==
    IF n = 0 THEN [ok |-> TRUE, list |-> files, rest |-> bytes, reads |-> reads]
    ELSE LET f == parse_file(bytes)
         IN  IF is_some(f.val)
             THEN parse_files(f.rest, n - 1, Append(files, unwrap(f.val)), Append(reads, f.read))
             ELSE [ok |-> FALSE, list |-> files, rest |-> f.rest, reads |-> Append(reads, f.read)]

\* for _ in 0..nenv: n iterations are left
RECURSIVE parse_envs(_, _, _, _)
parse_envs(bytes, n, env, reads) ==
    IF n = 0 THEN [ok |-> TRUE, list |-> env, rest |-> bytes, reads |-> reads]
    ELSE LET e == parse_env(bytes)
         IN  IF is_some(e.val)
             THEN parse_envs(e.rest, n - 1, Append(env, unwrap(e.val)), Append(reads, e.read))
             ELSE [ok |-> FALSE, list |-> env, rest |-> e.rest, reads |-> Append(reads, e.read)]

\* EncodedDepInfo::default()
EncodedDepInfo_default == [files |-> <<>>, env |-> <<>>]

\* The outcome of a call of EncodedDepInfo::parse.  kind: "Some" (with info),
\* "None", or "Abort" (the process died in the call).  The other fields are
\* what the call read: the counts, the slice left, each iteration's reads.
ParseOutcome(kind, info, rest, nfiles, nenv, file_reads, env_reads) ==
    [kind |-> kind, info |-> info, rest |-> rest, nfiles |-> nfiles, nenv |-> nenv,
     file_reads |-> file_reads, env_reads |-> env_reads]

\* Line 130 with a test that no byte is left
parse_return_at_end(nfiles, fs, nenv, es) ==
    IF ~es.ok \/ es.rest # <<>>
    THEN ParseOutcome("None", EncodedDepInfo_default, es.rest, nfiles.val, nenv.val,
                      fs.reads, es.reads)
    ELSE ParseOutcome("Some", [files |-> fs.list, env |-> es.list], es.rest,
                      nfiles.val, nenv.val, fs.reads, es.reads)

\* Line 130, after the loop of lines 121-129.
parse_return(nfiles, fs, nenv, es) ==
    IF ~es.ok
    THEN ParseOutcome("None", EncodedDepInfo_default, es.rest, nfiles.val, nenv.val,
                      fs.reads, es.reads)
    ELSE ParseOutcome("Some", [files |-> fs.list, env |-> es.list], es.rest,
                      nfiles.val, nenv.val, fs.reads, es.reads)

\* Lines 119-120.
parse_nenv(nfiles, fs, nenv, oom) ==
    IF ~is_some(nenv.val)
    THEN ParseOutcome("None", EncodedDepInfo_default, nenv.rest, nfiles.val, None,
                      fs.reads, <<>>)
    ELSE IF with_capacity(unwrap(nenv.val), oom) = "abort"
    THEN ParseOutcome("Abort", EncodedDepInfo_default, nenv.rest, nfiles.val, nenv.val,
                      fs.reads, <<>>)
    ELSE parse_return(nfiles, fs, nenv, parse_envs(nenv.rest, unwrap(nenv.val), <<>>, <<>>))

\* After the loop of lines 98-117.
parse_env_section(nfiles, fs, oom) ==
    IF ~fs.ok
    THEN ParseOutcome("None", EncodedDepInfo_default, fs.rest, nfiles.val, None,
                      fs.reads, <<>>)
    ELSE parse_nenv(nfiles, fs, read_usize(fs.rest), oom)

\* Lines 96-97.
parse_nfiles(nfiles, oom) ==
    IF ~is_some(nfiles.val)
    THEN ParseOutcome("None", EncodedDepInfo_default, nfiles.rest, None, None, <<>>, <<>>)
    ELSE IF with_capacity(unwrap(nfiles.val), oom) = "abort"
    THEN ParseOutcome("Abort", EncodedDepInfo_default, nfiles.rest, nfiles.val, None,
                      <<>>, <<>>)
    ELSE parse_env_section(nfiles, parse_files(nfiles.rest, unwrap(nfiles.val), <<>>, <<>>), oom)

\* EncodedDepInfo::parse(bytes); oom: whether the allocator refuses a
\* request beyond MemLimit.
parse(bytes, oom) == parse_nfiles(read_usize(bytes), oom)

----------------------------------------------------------------------------
(* EncodedDepInfo::serialize and its writers: each returns dst extended.    *)

write_usize(dst, val) == dst \o u32_to_le_bytes(val)

write_u64(dst, val) == dst \o u64_to_le_bytes(val)

write_bool(dst, val) == Append(dst, IF val THEN 1 ELSE 0)

write_bytes(dst, val) == write_usize(dst, Len(val)) \o val

\* The body of the loop of lines 166-177.
serialize_file(dst, entry) ==
    LET ty == entry[1]
        file == entry[2]
        checksum_info == entry[3]
        d1 == Append(dst, IF ty = PackageRootRelative THEN 0 ELSE 1)
        d2 == write_bytes(d1, path2bytes(file))
        d3 == write_bool(d2, is_some(checksum_info))
    IN  IF is_some(checksum_info)
        THEN write_bytes(write_u64(d3, unwrap(checksum_info)[1]), unwrap(checksum_info)[2])
        ELSE d3

\* The body of the loop of lines 180-189.
serialize_env(dst, entry) ==
    LET key == entry[1]
        val == entry[2]
        d1 == write_bytes(dst, key)
    IN  IF is_some(val) THEN write_bytes(Append(d1, 1), unwrap(val)) ELSE Append(d1, 0)

RECURSIVE serialize_files(_, _, _)
serialize_files(dst, files, i) ==
    IF i > Len(files) THEN dst ELSE serialize_files(serialize_file(dst, files[i]), files, i + 1)

RECURSIVE serialize_envs(_, _, _)
serialize_envs(dst, env, i) ==
    IF i > Len(env) THEN dst ELSE serialize_envs(serialize_env(dst, env[i]), env, i + 1)

\* EncodedDepInfo::serialize(&self), the bytes of its Ok
serialize(self) ==
    LET d1 == write_usize(<<>>, Len(self.files))
        d2 == serialize_files(d1, self.files, 1)
        d3 == write_usize(d2, Len(self.env))
    IN  serialize_envs(d3, self.env, 1)

----------------------------------------------------------------------------
(* Checksum and its text form "<algorithm>=<hex digest>".                   *)

Sha256 == "Sha256"

Blake3 == "Blake3"

\* ChecksumAlgo::hash_len
hash_len(algo) == IF algo \in {Sha256, Blake3} THEN 32 ELSE 0

\* Result<T, E>
Ok(v) == <<"Ok", v>>

Err(e) == <<"Err", e>>

is_ok(r) == r[1] = "Ok"

\* Result::ok
ok(r) == IF is_ok(r) THEN Some(r[2]) ELSE None

\* "sha256", "blake3"
Str_sha256 == <<115, 104, 97, 50, 53, 54>>

Str_blake3 == <<98, 108, 97, 107, 101, 51>>

\* The least and the k-th least of a set of positions
Min(S) == CHOOSE x \in S : \A y \in S : x <= y

Nth(S, k) == CHOOSE x \in S : Cardinality({y \in S : y <= x}) = k

\* Where sep occurs in s
positions(s, sep) == {i \in 1..Len(s) : s[i] = sep}

\* The k-th of the positions at, 0 before the first, Len(s) + 1 behind the last
sep_pos(s, at, k) ==
    IF k = 0 THEN 0
    ELSE IF k > Cardinality(at) THEN Len(s) + 1
    ELSE Nth(at, k)

\* The parts of s between the positions at
split_at(s, at) ==
    [k \in 1..(Cardinality(at) + 1) |->
        SubSeq(s, sep_pos(s, at, k - 1) + 1, sep_pos(s, at, k) - 1)]

\* str::split(sep): the parts between the occurrences of sep, in order
split(s, sep) == split_at(s, positions(s, sep))

\* FromStr for ChecksumAlgo that takes every other name for sha256
ChecksumAlgo_from_str_any(s) ==
    IF s = Str_blake3 THEN Ok(Blake3) ELSE Ok(Sha256)

\* impl FromStr for ChecksumAlgo
ChecksumAlgo_from_str(s) ==
    IF s = Str_sha256 THEN Ok(Sha256)
    ELSE IF s = Str_blake3 THEN Ok(Blake3)
    ELSE Err(<<"InvalidChecksumAlgo">>)

\* impl Display for ChecksumAlgo
ChecksumAlgo_to_string(algo) == IF algo = Sha256 THEN Str_sha256 ELSE Str_blake3

\* "0123456789abcdef"
HexDigits == <<48, 49, 50, 51, 52, 53, 54, 55, 56, 57, 97, 98, 99, 100, 101, 102>>

\* "0123456789ABCDEF"
HexDigitsUpper == <<48, 49, 50, 51, 52, 53, 54, 55, 56, 57, 65, 66, 67, 68, 69, 70>>

\* hex::encode_to_slice writing upper case digits
hex_encode_upper(input) ==
    [i \in 1..(2 * Len(input)) |->
        IF i % 2 = 1 THEN HexDigitsUpper[(input[(i + 1) \div 2] \div 16) + 1]
        ELSE HexDigitsUpper[(input[i \div 2] % 16) + 1]]

\* hex::encode_to_slice(input, output): the digits written
hex_encode(input) ==
    [i \in 1..(2 * Len(input)) |->
        IF i % 2 = 1 THEN HexDigits[(input[(i + 1) \div 2] \div 16) + 1]
        ELSE HexDigits[(input[i \div 2] % 16) + 1]]

\* hex::encode_to_slice(input, output) with output of n bytes: it wants
\* n = 2 * input.len()
hex_encode_to_slice(input, n) ==
    IF n # 2 * Len(input) THEN Err(<<"InvalidOutputLength">>) ELSE Ok(hex_encode(input))

\* The value of a hex digit, a to f taken for 0 to 5
hex_val_low(c) ==
    IF c >= 48 /\ c <= 57 THEN Some(c - 48)
    ELSE IF c >= 97 /\ c <= 102 THEN Some(c - 97)
    ELSE IF c >= 65 /\ c <= 70 THEN Some(c - 55)
    ELSE None

\* The value of a hex digit, of either case
hex_val(c) ==
    IF c >= 48 /\ c <= 57 THEN Some(c - 48)
    ELSE IF c >= 97 /\ c <= 102 THEN Some(c - 87)
    ELSE IF c >= 65 /\ c <= 70 THEN Some(c - 55)
    ELSE None

\* hex::decode_to_slice(data, out) with out of n bytes: Some(out) on Ok
hex_decode_to_slice(digits, n) ==
    IF Len(digits) % 2 # 0 THEN None
    ELSE IF Len(digits) \div 2 # n THEN None
    ELSE IF \E i \in 1..Len(digits) : ~is_some(hex_val(digits[i])) THEN None
    ELSE Some([i \in 1..n |->
                  16 * unwrap(hex_val(digits[2 * i - 1])) + unwrap(hex_val(digits[2 * i]))])

\* Checksum::new
Checksum_new(algo, value) == [algo |-> algo, value |-> value]

\* Lines 582-589.
Checksum_from_parts(algo, parts) ==
    IF Len(parts) < 2 THEN Err(<<"InvalidFormat">>)
    ELSE IF ~is_some(hex_decode_to_slice(parts[2], hash_len(algo)))
    THEN Err(<<"InvalidChecksum", algo>>)
    ELSE Ok(Checksum_new(algo, unwrap(hex_decode_to_slice(parts[2], hash_len(algo)))))

\* impl FromStr for Checksum: split('=') always has a first part
Checksum_from_str(s) ==
    IF ~is_ok(ChecksumAlgo_from_str(split(s, 61)[1])) THEN ChecksumAlgo_from_str(split(s, 61)[1])
    ELSE Checksum_from_parts(ChecksumAlgo_from_str(split(s, 61)[1])[2], split(s, 61))

\* impl Display for Checksum
Checksum_to_string(c) ==
    ChecksumAlgo_to_string(c.algo) \o <<61>> \o hex_encode(SubSeq(c.value, 1, hash_len(c.algo)))

\* The digest of a byte string, one for each algorithm: the length and the
\* bytes behind a mark of the algorithm, so that two strings of up to 30
\* bytes never have the same digest
reference_digest(algo, bytes) ==
    [i \in 1..32 |-> IF i = 1 THEN (IF algo = Sha256 THEN 1 ELSE 2)
                     ELSE IF i = 2 THEN Len(bytes)
                     ELSE IF i - 2 <= Len(bytes) THEN bytes[i - 2]
                     ELSE 0]

\* Sha256::new() and blake3::Hasher::new(); update; finish and finalize:
\* a hasher is the bytes it was fed
Hasher_new == <<>>

Hasher_update(hasher, b) == hasher \o b

Hasher_finish(algo, hasher) == reference_digest(algo, hasher)

\* Line 529 handing over the whole buffer
fed_whole(buf, bytes_read) == buf

\* &buf[0..bytes_read]
fed(buf, bytes_read) == SubSeq(buf, 1, bytes_read)

\* contents.read(buf) that returned n: the n bytes are at the front of buf
read_into(buf, bytes) == [i \in 1..Len(buf) |-> IF i <= Len(bytes) THEN bytes[i] ELSE buf[i]]

\* Display::fmt of Checksum with its result: encode_to_slice is the one
\* step that can fail
Checksum_fmt(c) ==
    IF ~is_ok(hex_encode_to_slice(SubSeq(c.value, 1, hash_len(c.algo)), hash_len(c.algo) * 2))
    THEN Err(<<"fmt::Error">>)
    ELSE Ok(Checksum_to_string(c))

----------------------------------------------------------------------------
(* parse_dep_info: the persisted record read back.  RustcDepInfo.files is   *)
(* a HashMap: a function from paths to Option<(u64, Checksum)>.             *)

\* Path::is_absolute, on unix
is_absolute(path) == Len(path) > 0 /\ path[1] = 47

\* Path::join that appends an absolute path like a relative one
join_appending(base, path) ==
    IF Len(base) = 0 \/ base[Len(base)] = 47 THEN base \o path
    ELSE base \o <<47>> \o path

\* Path::join (PathBuf::push): an absolute path replaces the base
join(base, path) ==
    IF is_absolute(path) THEN path
    ELSE IF Len(base) = 0 \/ base[Len(base)] = 47 THEN base \o path
    ELSE base \o <<47>> \o path

make_absolute_path(ty, pkg_root, target_root, path) ==
    IF ty = PackageRootRelative THEN join(pkg_root, path) ELSE join(target_root, path)

\* HashMap::new()
HashMap_new == <<>>

\* HashMap::insert: the value of a key that is there already is replaced
insert(map, k, v) == [x \in (DOMAIN map) \cup {k} |-> IF x = k THEN v ELSE map[x]]

\* The closure of lines 436-438.
decode_checksum_info(checksum_info) ==
    IF ~is_some(checksum_info) THEN None
    ELSE IF is_ok(Checksum_from_str(unwrap(checksum_info)[2]))
    THEN Some(<<unwrap(checksum_info)[1], Checksum_from_str(unwrap(checksum_info)[2])[2]>>)
    ELSE None

\* Lines 432-440: ret.files.extend(..), entry i onwards
RECURSIVE extend_files(_, _, _, _, _)
extend_files(map, files, i, pkg_root, target_root) ==
    IF i > Len(files) THEN map
    ELSE extend_files(insert(map,
                             make_absolute_path(files[i][1], pkg_root, target_root, files[i][2]),
                             decode_checksum_info(files[i][3])),
                      files, i + 1, pkg_root, target_root)

\* Lines 426-441.
parse_dep_info_decoded(pkg_root, target_root, parsed) ==
    IF parsed.kind = "Abort" THEN <<"Abort">>
    ELSE IF parsed.kind = "None" THEN Ok(None)
    ELSE Ok(Some([files |-> extend_files(HashMap_new, parsed.info.files, 1, pkg_root, target_root),
                  env |-> parsed.info.env]))

\* A file that cannot be read fails the whole call (paths::read_bytes(..)?).
parse_dep_info_propagating(pkg_root, target_root, dep_info, oom) ==
    IF ~is_some(dep_info) THEN Err(<<"read_bytes">>)
    ELSE parse_dep_info_decoded(pkg_root, target_root, parse(unwrap(dep_info), oom))

\* A checksum text that Checksum::from_str rejects fails the whole decode.
parse_dep_info_strict(pkg_root, target_root, dep_info, oom) ==
    IF ~is_some(dep_info) THEN Ok(None)
    ELSE IF /\ parse(unwrap(dep_info), oom).kind = "Some"
            /\ \E i \in 1..Len(parse(unwrap(dep_info), oom).info.files) :
                  /\ is_some(parse(unwrap(dep_info), oom).info.files[i][3])
                  /\ ~is_some(decode_checksum_info(parse(unwrap(dep_info), oom).info.files[i][3]))
    THEN Ok(None)
    ELSE parse_dep_info_decoded(pkg_root, target_root, parse(unwrap(dep_info), oom))

\* parse_dep_info(pkg_root, target_root, dep_info); dep_info is the content
\* of the file, None when it cannot be read.  <<"Abort">>: the process died.
parse_dep_info(pkg_root, target_root, dep_info, oom) ==
    IF ~is_some(dep_info) THEN Ok(None)
    ELSE parse_dep_info_decoded(pkg_root, target_root, parse(unwrap(dep_info), oom))

----------------------------------------------------------------------------
(* parse_rustc_dep_info: the makefile-style text rustc writes.              *)

\* "# env-dep:", "# checksum:", "file_len:", ": "
Str_env_dep == <<35, 32, 101, 110, 118, 45, 100, 101, 112, 58>>

Str_checksum == <<35, 32, 99, 104, 101, 99, 107, 115, 117, 109, 58>>

Str_file_len == <<102, 105, 108, 101, 95, 108, 101, 110, 58>>

Str_colon_space == <<58, 32>>

\* str::strip_prefix
str_strip_prefix(s, prefix) ==
    IF Len(s) >= Len(prefix) /\ SubSeq(s, 1, Len(prefix)) = prefix
    THEN Some(SubSeq(s, Len(prefix) + 1, Len(s)))
    ELSE None

\* str::lines: the text is cut after each \n; a piece that ended in \n loses
\* it and one \r in front of it; an empty last piece is no line
lines_piece(pieces, k) ==
    IF k < Len(pieces) /\ Len(pieces[k]) > 0 /\ pieces[k][Len(pieces[k])] = 13
    THEN SubSeq(pieces[k], 1, Len(pieces[k]) - 1)
    ELSE pieces[k]

lines_of(pieces) ==
    [k \in 1..(IF Len(pieces[Len(pieces)]) = 0 THEN Len(pieces) - 1 ELSE Len(pieces)) |->
        lines_piece(pieces, k)]

lines(s) == lines_of(split(s, 10))

\* str::splitn(n, sep): at most n parts, the last one holding the rest
splitn_at(s, n, at) ==
    IF Cardinality(at) < n THEN split_at(s, at)
    ELSE [k \in 1..n |->
            IF k < n THEN SubSeq(s, sep_pos(s, at, k - 1) + 1, sep_pos(s, at, k) - 1)
            ELSE SubSeq(s, sep_pos(s, at, n - 1) + 1, Len(s))]

\* str::split in the place of splitn: a part for every separator
splitn_every(s, n, sep) == split(s, sep)

splitn(s, n, sep) == splitn_at(s, n, positions(s, sep))

\* Where pat occurs in s
matches(s, pat) == {i \in 1..(Len(s) - Len(pat) + 1) : SubSeq(s, i, i + Len(pat) - 1) = pat}

\* str::find(": "): the first position, None when there is none
find_in(at) == IF at = {} THEN None ELSE Some(Min(at))

find(s, pat) == find_in(matches(s, pat))

\* char::is_whitespace, for the characters of one byte
is_whitespace(c) == c \in {9, 10, 11, 12, 13, 32}

\* Where the tokens of str::split_whitespace start, and where they end
token_starts(s) ==
    {i \in 1..Len(s) : ~is_whitespace(s[i]) /\ (i = 1 \/ is_whitespace(s[i - 1]))}

token_ends(s) ==
    {i \in 1..Len(s) : ~is_whitespace(s[i]) /\ (i = Len(s) \/ is_whitespace(s[i + 1]))}

\* str::split_whitespace: the maximal runs of non-whitespace, in order
tokens(s, starts, ends) ==
    [k \in 1..Cardinality(starts) |-> SubSeq(s, Nth(starts, k), Nth(ends, k))]

split_whitespace(s) == tokens(s, token_starts(s), token_ends(s))

\* unescape_env that copies what it does not know: a backslash before
\* another character, or at the end, stays as it is
RECURSIVE unescape_from_copying(_, _, _)
unescape_from_copying(s, i, ret) ==
    IF i > Len(s) THEN Ok(ret)
    ELSE IF s[i] # 92 THEN unescape_from_copying(s, i + 1, Append(ret, s[i]))
    ELSE IF i = Len(s) THEN Ok(Append(ret, 92))
    ELSE IF s[i + 1] = 92 THEN unescape_from_copying(s, i + 2, Append(ret, 92))
    ELSE IF s[i + 1] = 110 THEN unescape_from_copying(s, i + 2, Append(ret, 10))
    ELSE IF s[i + 1] = 114 THEN unescape_from_copying(s, i + 2, Append(ret, 13))
    ELSE unescape_from_copying(s, i + 1, Append(ret, 92))

\* unescape_env, from character i on, ret being what is unescaped so far
RECURSIVE unescape_from(_, _, _)
unescape_from(s, i, ret) ==
    IF i > Len(s) THEN Ok(ret)
    ELSE IF s[i] # 92 THEN unescape_from(s, i + 1, Append(ret, s[i]))
    ELSE IF i = Len(s) THEN Err(<<"unterminated escape character">>)
    ELSE IF s[i + 1] = 92 THEN unescape_from(s, i + 2, Append(ret, 92))
    ELSE IF s[i + 1] = 110 THEN unescape_from(s, i + 2, Append(ret, 10))
    ELSE IF s[i + 1] = 114 THEN unescape_from(s, i + 2, Append(ret, 13))
    ELSE Err(<<"unknown escape character">>)

unescape_env(s) == unescape_from(s, 1, <<>>)

\* str::parse::<u64>: an optional + and decimal digits, at least one
digits_of(s) == IF Len(s) > 0 /\ s[1] = 43 THEN SubSeq(s, 2, Len(s)) ELSE s

RECURSIVE decimal(_, _)
decimal(d, n) ==
    IF n = 0 THEN 0
    ELSE IF decimal(d, n - 1) > 214748364 THEN 2147483647
    ELSE 10 * decimal(d, n - 1) + (d[n] - 48)

parse_u64(s) ==
    IF Len(digits_of(s)) = 0 \/ Len(digits_of(s)) > 20 THEN Err(<<"ParseIntError">>)
    ELSE IF \E i \in 1..Len(digits_of(s)) : digits_of(s)[i] < 48 \/ digits_of(s)[i] > 57
    THEN Err(<<"ParseIntError">>)
    ELSE Ok(decimal(digits_of(s), Len(digits_of(s))))

RustcDepInfo_default == [files |-> HashMap_new, env |-> <<>>]

\* HashMap::entry(k).or_default()
entry_or_default(map, k) == IF k \in DOMAIN map THEN map ELSE insert(map, k, None)

\* Lines 354-361 with the next token appended behind the backslash
RECURSIVE dep_file_keeping(_, _, _)
dep_file_keeping(deps, next, file) ==
    IF Len(file) = 0 \/ file[Len(file)] # 92 THEN [ok |-> TRUE, file |-> file, next |-> next]
    ELSE IF next > Len(deps) THEN [ok |-> FALSE, file |-> file, next |-> next]
    ELSE dep_file_keeping(deps, next + 1, file \o <<32>> \o deps[next])

\* Lines 354-361: the file name that starts with token i; next is the
\* token after the ones it took
RECURSIVE dep_file(_, _, _)
dep_file(deps, next, file) ==
    IF Len(file) = 0 \/ file[Len(file)] # 92 THEN [ok |-> TRUE, file |-> file, next |-> next]
    ELSE IF next > Len(deps) THEN [ok |-> FALSE, file |-> file, next |-> next]
    ELSE dep_file(deps, next + 1, SubSeq(file, 1, Len(file) - 1) \o <<32>> \o deps[next])

\* Lines 353-363 with the loop left, not the function, when a token is missing
RECURSIVE dep_files_breaking(_, _, _)
dep_files_breaking(deps, next, files) ==
    IF next > Len(deps) THEN Ok(files)
    ELSE IF ~dep_file(deps, next + 1, deps[next]).ok THEN Ok(files)
    ELSE dep_files_breaking(deps, dep_file(deps, next + 1, deps[next]).next,
                            entry_or_default(files, dep_file(deps, next + 1, deps[next]).file))

\* Lines 353-363: the while loop over the tokens
RECURSIVE dep_files(_, _, _)
dep_files(deps, next, files) ==
    IF next > Len(deps) THEN Ok(files)
    ELSE IF ~dep_file(deps, next + 1, deps[next]).ok
    THEN Err(<<"malformed dep-info format, trailing \\">>)
    ELSE dep_files(deps, dep_file(deps, next + 1, deps[next]).next,
                   entry_or_default(files, dep_file(deps, next + 1, deps[next]).file))

\* What a line does: the record and found_deps after it, or an error
LineOk(ret, found_deps) == [ok |-> TRUE, ret |-> ret, found_deps |-> found_deps]

LineErr(e) == [ok |-> FALSE, err |-> e]

\* Lines 337-345
env_dep_value(ret, found_deps, env_var, env_val) ==
    IF is_some(env_val) /\ ~is_ok(unescape_env(unwrap(env_val)))
    THEN LineErr(unescape_env(unwrap(env_val))[2])
    ELSE IF ~is_ok(unescape_env(env_var)) THEN LineErr(unescape_env(env_var)[2])
    ELSE LineOk([ret EXCEPT !.env =
                    Append(@, <<unescape_env(env_var)[2],
                                IF is_some(env_val) THEN Some(unescape_env(unwrap(env_val))[2])
                                ELSE None>>)],
                found_deps)

env_dep_line(ret, found_deps, parts) ==
    env_dep_value(ret, found_deps, parts[1], IF Len(parts) > 1 THEN Some(parts[2]) ELSE None)

\* Lines 347-363
deps_line_files(ret, files) ==
    IF is_ok(files) THEN LineOk([ret EXCEPT !.files = files[2]], TRUE)
    ELSE LineErr(files[2])

\* Lines 347-363 without the test of found_deps at line 347
deps_line_every(ret, found_deps, line, pos) ==
    deps_line_files(ret, dep_files(split_whitespace(SubSeq(line, pos + 3, Len(line))),
                                   1, ret.files))

deps_line(ret, found_deps, line, pos) ==
    IF found_deps THEN LineOk(ret, found_deps)
    ELSE deps_line_files(ret, dep_files(split_whitespace(SubSeq(line, pos + 3, Len(line))),
                                        1, ret.files))

\* Lines 376-379 with the entry API in the place of insert: a path that has
\* an entry keeps it
checksum_line_path_keeping(ret, found_deps, parts, checksum, file_len) ==
    IF Len(parts) < 3 THEN LineOk(ret, found_deps)
    ELSE IF parts[3] \in DOMAIN ret.files /\ ret.files[parts[3]] # None
    THEN LineOk(ret, found_deps)
    ELSE LineOk([ret EXCEPT !.files = insert(@, parts[3], Some(<<file_len, checksum>>))],
                found_deps)

\* Lines 365-379
checksum_line_path(ret, found_deps, parts, checksum, file_len) ==
    IF Len(parts) < 3 THEN LineOk(ret, found_deps)
    ELSE LineOk([ret EXCEPT !.files = insert(@, parts[3], Some(<<file_len, checksum>>))],
                found_deps)

checksum_line_len(ret, found_deps, parts, checksum) ==
    IF Len(parts) < 2 THEN LineOk(ret, found_deps)
    ELSE IF ~is_some(str_strip_prefix(parts[2], Str_file_len)) THEN LineOk(ret, found_deps)
    ELSE IF ~is_ok(parse_u64(unwrap(str_strip_prefix(parts[2], Str_file_len))))
    THEN LineOk(ret, found_deps)
    ELSE checksum_line_path(ret, found_deps, parts, checksum,
                            parse_u64(unwrap(str_strip_prefix(parts[2], Str_file_len)))[2])

checksum_line(ret, found_deps, parts) ==
    IF ~is_ok(Checksum_from_str(parts[1])) THEN LineErr(Checksum_from_str(parts[1])[2])
    ELSE checksum_line_len(ret, found_deps, parts, Checksum_from_str(parts[1])[2])

\* Lines 336-380: the body of the loop
parse_line(ret, found_deps, line) ==
    IF is_some(str_strip_prefix(line, Str_env_dep))
    THEN env_dep_line(ret, found_deps, splitn(unwrap(str_strip_prefix(line, Str_env_dep)), 2, 61))
    ELSE IF is_some(find(line, Str_colon_space))
    THEN deps_line(ret, found_deps, line, unwrap(find(line, Str_colon_space)) - 1)
    ELSE IF is_some(str_strip_prefix(line, Str_checksum))
    THEN checksum_line(ret, found_deps,
                       splitn(unwrap(str_strip_prefix(line, Str_checksum)), 3, 32))
    ELSE LineOk(ret, found_deps)

\* Lines 335-382: the lines from i on
RECURSIVE parse_lines(_, _, _)
parse_lines(ls, i, st) ==
    IF ~st.ok THEN Err(st.err)
    ELSE IF i > Len(ls) THEN Ok(st.ret)
    ELSE parse_lines(ls, i + 1, parse_line(st.ret, st.found_deps, ls[i]))

\* parse_rustc_dep_info(rustc_dep_info); rustc_dep_info is the content of the
\* file, None when it cannot be read.  paths::read wants UTF-8.
parse_rustc_dep_info(rustc_dep_info) ==
    IF ~is_some(rustc_dep_info) THEN Err(<<"read">>)
    ELSE IF ~is_some(from_utf8(unwrap(rustc_dep_info))) THEN Err(<<"read">>)
    ELSE parse_lines(lines(unwrap(rustc_dep_info)), 1, LineOk(RustcDepInfo_default, FALSE))

----------------------------------------------------------------------------
(* Paths, as std::path sees them on unix, and the file system that          *)
(* try_canonicalize looks at.                                               *)

RootDir == <<"RootDir", <<>>>>

CurDir == <<"CurDir", <<>>>>

ParentDir == <<"ParentDir", <<>>>>

Normal(name) == <<"Normal", name>>

\* A part between separators that is a component: not empty, not "."
is_name(part) == part # <<>> /\ part # <<46>>

component_of(part) == IF part = <<46, 46>> THEN ParentDir ELSE Normal(part)

components_names(names) == [k \in 1..Len(names) |-> component_of(names[k])]

\* Path::components: RootDir for a leading separator, CurDir for a leading
\* ".", then the names; repeated separators and other "." are skipped
components(path) ==
    (IF is_absolute(path) THEN <<RootDir>>
     ELSE IF split(path, 47)[1] = <<46>> THEN <<CurDir>>
     ELSE <<>>)
    \o components_names(SelectSeq(split(path, 47), is_name))

\* The path of components i.. that hold no RootDir
RECURSIVE components_as_path(_, _)
components_as_path(comps, i) ==
    IF i > Len(comps) THEN <<>>
    ELSE (IF comps[i] = ParentDir THEN <<46, 46>>
          ELSE IF comps[i] = CurDir THEN <<46>>
          ELSE comps[i][2])
         \o (IF i < Len(comps) THEN <<47>> ELSE <<>>)
         \o components_as_path(comps, i + 1)

\* Path::strip_prefix(base): the components of base lead those of path
strip_prefix_components(path, comps, base) ==
    IF Len(base) = 0 THEN Ok(path)
    ELSE IF Len(base) <= Len(comps) /\ SubSeq(comps, 1, Len(base)) = base
    THEN Ok(components_as_path(comps, Len(base) + 1))
    ELSE Err(<<"StripPrefixError">>)

strip_prefix(path, base) == strip_prefix_components(path, components(path), components(base))

\* The file system: what is there, "/p" "/p/a" "/p/t" "/p/t/b" "/t" "/t/b"
\* "/o" "/o/c", and the symbolic links "/q" -> "/p", "/p/l" -> "/t/b"
FsReal ==
    { <<47, 112>>, <<47, 112, 47, 97>>, <<47, 112, 47, 116>>, <<47, 112, 47, 116, 47, 98>>, <<47, 116>>, <<47, 116, 47, 98>>, <<47, 111>>, <<47, 111, 47, 99>> }

FsLinks == { <<<<47, 113>>, <<47, 112>>>>, <<<<47, 112, 47, 108>>, <<47, 116, 47, 98>>>> }

\* The directory a path lies in
parent(path) ==
    IF \E i \in 1..Len(path) : path[i] = 47
    THEN SubSeq(path, 1, (CHOOSE i \in 1..Len(path) :
                             path[i] = 47 /\ \A j \in (i + 1)..Len(path) : path[j] # 47) - 1)
    ELSE <<>>

\* Component i onwards of an absolute path resolved behind cur
RECURSIVE resolve(_, _, _)
resolve(comps, i, cur) ==
    IF i > Len(comps) THEN Ok(IF cur = <<>> THEN <<47>> ELSE cur)
    ELSE IF comps[i] = RootDir THEN resolve(comps, i + 1, <<>>)
    ELSE IF comps[i] = ParentDir THEN resolve(comps, i + 1, parent(cur))
    ELSE IF \E l \in FsLinks : l[1] = cur \o <<47>> \o comps[i][2]
    THEN resolve(comps, i + 1, (CHOOSE l \in FsLinks : l[1] = cur \o <<47>> \o comps[i][2])[2])
    ELSE IF cur \o <<47>> \o comps[i][2] \in FsReal
    THEN resolve(comps, i + 1, cur \o <<47>> \o comps[i][2])
    ELSE Err(<<"NotFound">>)

\* crate::util::try_canonicalize: the path with links, "." and ".." resolved,
\* an error for a path that is not there
try_canonicalize(path) == resolve(components(path), 1, <<>>)

----------------------------------------------------------------------------
(* translate_dep_info                                                       *)

\* crate::CARGO_ENV: "CARGO"
CARGO_ENV == <<67, 65, 82, 71, 79>>

\* HashMap::contains_key
contains_key(map, key) == key \in DOMAIN map

\* The closure of lines 285-287 without `|| key == CARGO_ENV`
retained_without_cargo(key, env_config, envs) ==
    contains_key(env_config, key) \/ ~contains_key(envs, key)

\* The closure of lines 285-287 with the first test alone
retained_if_configured(key, env_config, envs) ==
    contains_key(env_config, key) \/ key = CARGO_ENV

\* The closure of lines 285-287
retained(key, env_config, envs) ==
    contains_key(env_config, key) \/ ~contains_key(envs, key) \/ key = CARGO_ENV

\* Vec::retain: entry i onwards
RECURSIVE retain(_, _, _, _)
retain(env, i, env_config, envs) ==
    IF i > Len(env) THEN <<>>
    ELSE (IF retained(env[i][1], env_config, envs) THEN <<env[i]>> ELSE <<>>)
         \o retain(env, i + 1, env_config, envs)

\* Lines 299-312, the package root asked first
serialize_path_pkg_first(abs_file, canon_file, pkg_root, target_root, allow_package) ==
    IF is_ok(strip_prefix(canon_file, pkg_root))
    THEN (IF ~allow_package THEN None
          ELSE Some(<<PackageRootRelative, strip_prefix(canon_file, pkg_root)[2]>>))
    ELSE IF is_ok(strip_prefix(canon_file, target_root))
    THEN Some(<<TargetRootRelative, strip_prefix(canon_file, target_root)[2]>>)
    ELSE Some(<<TargetRootRelative, abs_file>>)

\* Lines 299-312
serialize_path_type(abs_file, canon_file, pkg_root, target_root, allow_package) ==
    IF is_ok(strip_prefix(canon_file, target_root))
    THEN Some(<<TargetRootRelative, strip_prefix(canon_file, target_root)[2]>>)
    ELSE IF is_ok(strip_prefix(canon_file, pkg_root))
    THEN (IF ~allow_package THEN None
          ELSE Some(<<PackageRootRelative, strip_prefix(canon_file, pkg_root)[2]>>))
    ELSE Some(<<TargetRootRelative, abs_file>>)

\* Lines 296-297
serialize_path_canon(abs_file, rustc_cwd, pkg_root, target_root, allow_package) ==
    serialize_path_type(abs_file,
                        IF is_ok(try_canonicalize(abs_file)) THEN try_canonicalize(abs_file)[2]
                        ELSE abs_file,
                        pkg_root, target_root, allow_package)

\* The closure serialize_path, lines 289-313
serialize_path(file, rustc_cwd, pkg_root, target_root, allow_package) ==
    serialize_path_canon(join(rustc_cwd, file), rustc_cwd, pkg_root, target_root, allow_package)

\* Line 322
checksum_info_to_string(checksum_info) ==
    IF is_some(checksum_info)
    THEN Some(<<unwrap(checksum_info)[1], Checksum_to_string(unwrap(checksum_info)[2])>>)
    ELSE None

\* Lines 316-323: what the loop does with one file
push_file(files, path, checksum_info) ==
    IF is_some(path)
    THEN Append(files, <<unwrap(path)[1], unwrap(path)[2], checksum_info_to_string(checksum_info)>>)
    ELSE files

\* Lines 315-324: order is the order in which the HashMap hands out its keys
RECURSIVE translate_files(_, _, _, _, _, _, _, _)
translate_files(files, order, i, on_disk_files, rustc_cwd, pkg_root, target_root, allow_package) ==
    IF i > Len(order) THEN on_disk_files
    ELSE translate_files(files, order, i + 1,
                         push_file(on_disk_files,
                                   serialize_path(order[i], rustc_cwd, pkg_root, target_root,
                                                  allow_package),
                                   files[order[i]]),
                         rustc_cwd, pkg_root, target_root, allow_package)

\* What a call leaves: its result, the bytes it wrote to cargo_dep_info
\* (None: it wrote nothing), the record it parsed and the one it built
Translated(ret, write, depinfo, on_disk_info) ==
    [ret |-> ret, write |-> write, depinfo |-> depinfo, on_disk_info |-> on_disk_info]

\* Line 325
translate_write(depinfo, on_disk_info) ==
    Translated(Ok(<<>>), Some(serialize(on_disk_info)), Some(depinfo), Some(on_disk_info))

\* Lines 252-324
translate_roots(depinfo, order, rustc_cwd, pkg_root, target_root, envs, allow_package, env_config) ==
    translate_write(depinfo,
                    [files |-> translate_files(depinfo.files, order, 1, <<>>, rustc_cwd,
                                               pkg_root, target_root, allow_package),
                     env |-> retain(depinfo.env, 1, env_config, envs)])

\* Lines 250-251 behind a write of an empty record
translate_parsed_writing_first(depinfo, order, rustc_cwd, pkg_root, target_root, envs, allow_package, env_config) ==
    IF ~is_ok(try_canonicalize(target_root))
    THEN Translated(try_canonicalize(target_root), Some(serialize(EncodedDepInfo_default)),
                    Some(depinfo), None)
    ELSE IF ~is_ok(try_canonicalize(pkg_root))
    THEN Translated(try_canonicalize(pkg_root), Some(serialize(EncodedDepInfo_default)),
                    Some(depinfo), None)
    ELSE translate_roots(depinfo, order, rustc_cwd, try_canonicalize(pkg_root)[2],
                         try_canonicalize(target_root)[2], envs, allow_package, env_config)

\* Lines 250-251
translate_parsed(depinfo, order, rustc_cwd, pkg_root, target_root, envs, allow_package, env_config) ==
    IF ~is_ok(try_canonicalize(target_root))
    THEN Translated(try_canonicalize(target_root), None, Some(depinfo), None)
    ELSE IF ~is_ok(try_canonicalize(pkg_root))
    THEN Translated(try_canonicalize(pkg_root), None, Some(depinfo), None)
    ELSE translate_roots(depinfo, order, rustc_cwd, try_canonicalize(pkg_root)[2],
                         try_canonicalize(target_root)[2], envs, allow_package, env_config)

\* Line 248
translate_depinfo(depinfo, order, rustc_cwd, pkg_root, target_root, envs, allow_package, env_config) ==
    IF ~is_ok(depinfo) THEN Translated(depinfo, None, None, None)
    ELSE translate_parsed(depinfo[2], order, rustc_cwd, pkg_root, target_root, envs,
                          allow_package, env_config)

\* translate_dep_info; rustc_dep_info is the content of the file (None when
\* it cannot be read), envs is rustc_cmd.get_envs()
translate_dep_info(rustc_dep_info, order, rustc_cwd, pkg_root, target_root, envs, allow_package, env_config) ==
    translate_depinfo(parse_rustc_dep_info(rustc_dep_info), order, rustc_cwd, pkg_root,
                      target_root, envs, allow_package, env_config)

\* The orders in which a HashMap can hand out its keys
Orders(map) ==
    {o \in [1..Cardinality(DOMAIN map) -> DOMAIN map] :
        \A i, j \in 1..Cardinality(DOMAIN map) : o[i] = o[j] => i = j}

----------------------------------------------------------------------------
(* The codec on its own: a record is serialized, the bytes are left as they *)
(* are, cut short or damaged in one byte, and parsed.                       *)

MaxFiles == 2

MaxEnv == 1

SeqsUpTo(S, n) == UNION { [1..k -> S] : k \in 0..n }

\* "sha25": the start of a checksum text
Sha25 == <<115, 104, 97, 50, 53>>

\* A 32-byte digest: ab 00 .. 00 0f
Digest1 == [i \in 1..32 |-> IF i = 1 THEN 171 ELSE IF i = 32 THEN 15 ELSE 0]

FilePool ==
    { <<PackageRootRelative, <<>>, None>>,
      <<TargetRootRelative, <<97>>, None>>,
      <<PackageRootRelative, <<97>>, Some(<<258, Checksum_to_string(Checksum_new(Sha256, Digest1))>>)>>,
      <<TargetRootRelative, <<47, 111>>, Some(<<10, <<0, 0, 0, 0, 0>> >>)>>,
      <<PackageRootRelative, <<97>>, Some(<<0, Sha25>>)>> }

EnvPool ==
    { << <<>>, None>>, << <<75>>, None>>, << <<75>>, Some(<<>>)>>, << <<75>>, Some(<<118>>)>> }

Records == [files : SeqsUpTo(FilePool, MaxFiles), env : SeqsUpTo(EnvPool, MaxEnv)]

\* The values a damaged byte takes.
DamageBytes == {0, 1, 2, 128}

\* "/p", "/t": the package root and the target root the record was written
\* for; the decoding call is given "/t", or "/p" when the build root was
\* moved onto the package root
PkgRoot == <<47, 112>>

TargetRoot == <<47, 116>>

TargetRoot2 == <<47, 112>>

TargetRoots == {TargetRoot, TargetRoot2}

NotParsed == [kind |-> "NotParsed"]

NotCalled == [called |-> FALSE]

\* No record, no bytes
CodecIdle ==
    /\ rec = EncodedDepInfo_default
    /\ data = <<>>
    /\ how = "new"
    /\ res = NotParsed
    /\ pdi = NotCalled

\* No dep-info file of either kind, nothing called
UnitIdle ==
    /\ native = None
    /\ disk = None
    /\ cfg = <<>>
    /\ call = NotCalled
    /\ dec = NotCalled
    /\ compiles = 0

\* No text of rustc looked at
TextIdle == src = <<>> /\ rdi = NotCalled

\* No checksum looked at
SumIdle == sum = None /\ shown = NotCalled /\ back = NotCalled

\* Nothing to compute a checksum of
HashIdle == contents = <<>> /\ digest = NotCalled /\ computed = NotCalled

\* No workers
PairIdle == fsys = <<>> /\ jobs = <<>>

\* No file on its way through the loop
LoopIdle == lp = NotCalled

CodecInit ==
    /\ rec \in Records
    /\ data = <<>>
    /\ how = "new"
    /\ res = NotParsed
    /\ pdi = NotCalled
    /\ UnitIdle /\ TextIdle /\ SumIdle /\ HashIdle /\ PairIdle /\ LoopIdle

Untouched == res = NotParsed /\ pdi = NotCalled

\* The bytes are as they will be read: parse_dep_info reads them too.
Settled == (how = "removed" \/ res # NotParsed) /\ pdi = NotCalled

\* translate_dep_info's last step put the bytes of a record in the file.
Serialize ==
    /\ how = "new"
    /\ data' = serialize(rec)
    /\ how' = "serialized"
    /\ UNCHANGED <<rec, res, pdi, beside_codec>>

\* The file was written only in part: a proper prefix is left.
Truncate ==
    /\ how = "serialized" /\ Untouched
    /\ \E k \in 0..(Len(data) - 1) : data' = SubSeq(data, 1, k)
    /\ how' = "truncated"
    /\ UNCHANGED <<rec, res, pdi, beside_codec>>

\* One byte of the file changed.
Damage ==
    /\ how = "serialized" /\ Untouched
    /\ \E i \in 1..Len(data) : \E b \in DamageBytes \ {data[i]} :
          data' = [data EXCEPT ![i] = b]
    /\ how' = "damaged"
    /\ UNCHANGED <<rec, res, pdi, beside_codec>>

\* Bytes follow the record: a zero, a count of one, a record with nothing
\* in it, two bytes of 255.
TrailingBytes == { <<0>>, <<1, 0, 0, 0>>, <<0, 0, 0, 0, 0, 0, 0, 0>>, <<255, 255>> }

Extend ==
    /\ how = "serialized" /\ Untouched
    /\ \E x \in TrailingBytes : data' = data \o x
    /\ how' = "extended"
    /\ UNCHANGED <<rec, res, pdi, beside_codec>>

\* The file was removed.
Remove ==
    /\ how = "serialized" /\ Untouched
    /\ data' = <<>>
    /\ how' = "removed"
    /\ UNCHANGED <<rec, res, pdi, beside_codec>>

Parse ==
    /\ how \in {"serialized", "truncated", "damaged", "extended"} /\ Untouched
    /\ \E oom \in BOOLEAN : res' = parse(data, oom)
    /\ UNCHANGED <<rec, data, how, pdi, beside_codec>>

ParseDepInfo ==
    /\ Settled
    /\ \E oom \in BOOLEAN, root \in TargetRoots :
          pdi' = [called |-> TRUE,
                  target_root |-> root,
                  ret |-> parse_dep_info(PkgRoot, root,
                                         IF how = "removed" THEN None ELSE Some(data), oom)]
    /\ UNCHANGED <<rec, data, how, res, beside_codec>>

CodecNext == Serialize \/ Truncate \/ Damage \/ Extend \/ Remove \/ Parse \/ ParseDepInfo

CodecSpec == CodecInit /\ [][CodecNext]_vars

----------------------------------------------------------------------------
(* One compilation unit: rustc writes its dep-info, translate_dep_info      *)
(* turns it into cargo's, parse_dep_info reads that back.                   *)

MaxCompiles == 2

\* "K" and "O", two variables next to CARGO
Str_K == <<75>>

Str_O == <<79>>

\* "OUT_DIR" and "MY_FLAG"
Str_OUT_DIR == <<79, 85, 84, 95, 68, 73, 82>>

Str_MY_FLAG == <<77, 89, 95, 70, 76, 65, 71>>

\* What rustc writes:
\*   o: a /t/b /p/t/b | # env-dep:K=v | # env-dep:CARGO | # env-dep:O=1
\*   o: /p/l /tx/a | # env-dep:CARGO=c | # env-dep:K
\*   o: a /q/a | # checksum:sha256=ab00..0f file_len:12 a
\*   o: /t n | # env-dep:O
\*   o: a\     (a backslash with no token behind it)
\*   nothing
\*   # env-dep:OUT_DIR=/x | # env-dep:MY_FLAG=1
NativeTexts ==
    { <<111, 58, 32, 97, 32, 47, 116, 47, 98, 32, 47, 112, 47, 116, 47, 98, 10, 35, 32, 101, 110, 118, 45, 100, 101, 112, 58, 75, 61, 118, 10, 35, 32, 101, 110, 118, 45, 100, 101, 112, 58, 67, 65, 82, 71, 79, 10, 35, 32, 101, 110, 118, 45, 100, 101, 112, 58, 79, 61, 49, 10>>,
      <<111, 58, 32, 47, 112, 47, 108, 32, 47, 116, 120, 47, 97, 10, 35, 32, 101, 110, 118, 45, 100, 101, 112, 58, 67, 65, 82, 71, 79, 61, 99, 10, 35, 32, 101, 110, 118, 45, 100, 101, 112, 58, 75, 10>>,
      <<111, 58, 32, 97, 32, 47, 113, 47, 97, 10, 35, 32, 99, 104, 101, 99, 107, 115, 117, 109, 58>>
        \o Checksum_to_string(Checksum_new(Sha256, Digest1))
        \o <<32, 102, 105, 108, 101, 95, 108, 101, 110, 58, 49, 50, 32, 97, 10>>,
      <<111, 58, 32, 47, 116, 32, 110, 10, 35, 32, 101, 110, 118, 45, 100, 101, 112, 58, 79, 10>>,
      <<111, 58, 32, 97, 92, 10>>,
      <<>>,
      <<35, 32, 101, 110, 118, 45, 100, 101, 112, 58>> \o Str_OUT_DIR \o <<61, 47, 120, 10>>
        \o <<35, 32, 101, 110, 118, 45, 100, 101, 112, 58>> \o Str_MY_FLAG \o <<61, 49, 10>> }

\* The arguments of the calls: "/p" is the directory rustc ran in, the package
\* root is "/p" or the link "/q" to it, the build root is "/t", "/p/t" inside
\* the package root, or "/n" that is not there
Roots ==
    [rustc_cwd : {<<47, 112>>},
     pkg_root : {<<47, 112>>, <<47, 113>>},
     target_root : {<<47, 116>>, <<47, 112, 47, 116>>, <<47, 110>>},
     allow_package : BOOLEAN]

\* [env] of the configuration and the environment set on the rustc command
Envs ==
    [env_config : {HashMap_new, [k \in {Str_K} |-> <<118>>]},
     envs : {HashMap_new, [k \in {Str_K, CARGO_ENV} |-> <<120>>]}]

\* OUT_DIR=/x set on the command, MY_FLAG=1 set on it or only inherited,
\* MY_FLAG configured or not; the roots are "/p" and "/t"
FlagEnvs ==
    [env_config : {HashMap_new, [k \in {Str_MY_FLAG} |-> <<49>>]},
     envs : {[k \in {Str_OUT_DIR} |-> <<47, 120>>],
             [k \in {Str_OUT_DIR, Str_MY_FLAG} |-> IF k = Str_OUT_DIR THEN <<47, 120>> ELSE <<49>>]}]

FlagRoots == {r \in Roots : r.pkg_root = <<47, 112>> /\ r.target_root = <<47, 116>> /\ ~r.allow_package}

Configs == {r @@ e : r \in Roots, e \in Envs} \cup {r @@ e : r \in FlagRoots, e \in FlagEnvs}

Init ==
    /\ CodecIdle /\ TextIdle /\ SumIdle /\ HashIdle /\ PairIdle /\ LoopIdle
    /\ native = None
    /\ disk = None
    /\ cfg \in Configs
    /\ call = NotCalled
    /\ dec = NotCalled
    /\ compiles = 0

\* rustc ran and left its dep-info.
Rustc ==
    /\ compiles < MaxCompiles
    /\ native' \in {Some(t) : t \in NativeTexts}
    /\ compiles' = compiles + 1
    /\ UNCHANGED <<disk, cfg, call, dec, beside_unit>>

\* The keys of the files map the call parses, none when the parse fails
FilesOf(depinfo) == IF is_ok(depinfo) THEN depinfo[2].files ELSE HashMap_new

\* What the calls so far have written, as the last one that returned Ok left it
StoredBy(c) == IF c.called THEN c.stored ELSE None

\* The call from line 249 on, and the file it leaves; stored keeps the
\* content the last call that returned Ok has written
TranslateWith(depinfo, order) ==
    /\ \E out \in {translate_depinfo(depinfo, order, cfg.rustc_cwd, cfg.pkg_root,
                                      cfg.target_root, cfg.envs, cfg.allow_package,
                                      cfg.env_config)} :
          call' = [called |-> TRUE,
                   out |-> out,
                   stored |-> IF is_ok(out.ret) THEN out.write ELSE StoredBy(call)]
    /\ disk' = IF is_some(call'.out.write) THEN call'.out.write ELSE disk

\* The call after line 248 parsed the file of rustc
TranslateParsed(depinfo) == \E order \in Orders(FilesOf(depinfo)) : TranslateWith(depinfo, order)

Translate ==
    /\ TranslateParsed(parse_rustc_dep_info(native))
    /\ UNCHANGED <<native, cfg, dec, compiles, beside_unit>>

\* parse_dep_info that takes the file away once it has read it
Decode_consuming ==
    /\ \E oom \in BOOLEAN :
          dec' = [called |-> TRUE,
                  from |-> disk,
                  ret |-> parse_dep_info(cfg.pkg_root, cfg.target_root, disk, oom)]
    /\ disk' = None
    /\ UNCHANGED <<native, cfg, call, compiles, beside_unit>>

\* parse_dep_info on cargo's file as it is; from keeps what the call read
Decode ==
    /\ \E oom \in BOOLEAN :
          dec' = [called |-> TRUE,
                  from |-> disk,
                  ret |-> parse_dep_info(cfg.pkg_root, cfg.target_root, disk, oom)]
    /\ UNCHANGED <<native, disk, cfg, call, compiles, beside_unit>>

Next == Rustc \/ Translate \/ Decode

Spec == Init /\ [][Next]_vars

----------------------------------------------------------------------------
(* The text of rustc on its own: a file of a few lines is parsed.           *)

MaxLines == 2

\* "# checksum:sha256=ab00..0f ": the start of a checksum line
CkStart == Str_checksum \o Checksum_to_string(Checksum_new(Sha256, Digest1)) \o <<32>>

\* o: a b\ c.rs                               (a and "b c.rs")
Line_deps == <<111, 58, 32, 97, 32, 98, 92, 32, 99, 46, 114, 115>>

\* o: a a
Line_deps_twice == <<111, 58, 32, 97, 32, 97>>

\* # checksum:sha256=ab00..0f file_len:10 a
Line_ck_a == CkStart \o <<102, 105, 108, 101, 95, 108, 101, 110, 58, 49, 48, 32, 97>>

\* # checksum:sha256=ab00..0f file_len:7 b c.rs
Line_ck_bc == CkStart \o <<102, 105, 108, 101, 95, 108, 101, 110, 58, 55, 32, 98, 32, 99, 46, 114, 115>>

\* # checksum:sha256=ab00..0f file_len:3 d: e   (the file "d: e")
Line_ck_colon == CkStart \o <<102, 105, 108, 101, 95, 108, 101, 110, 58, 51, 32, 100, 58, 32, 101>>

\* # env-dep:FOO=bar
Line_env == <<35, 32, 101, 110, 118, 45, 100, 101, 112, 58, 70, 79, 79, 61, 98, 97, 114>>

\* # checksum:md5=00 file_len:1 a              (unknown algorithm)
Line_ck_algo == <<35, 32, 99, 104, 101, 99, 107, 115, 117, 109, 58, 109, 100, 53, 61, 48, 48, 32, 102, 105, 108, 101, 95, 108, 101, 110, 58, 49, 32, 97>>

\* # checksum:sha256=ab file_len:1 a           (two digits for 64)
Line_ck_digest == <<35, 32, 99, 104, 101, 99, 107, 115, 117, 109, 58, 115, 104, 97, 50, 53, 54, 61, 97, 98, 32, 102, 105, 108, 101, 95, 108, 101, 110, 58, 49, 32, 97>>

\* # checksum:sha256=ab00..0f a                (no file_len field)
Line_ck_nolen == CkStart \o <<97>>

\* # checksum:sha256=ab00..0f file_len:x a
Line_ck_badlen == CkStart \o <<102, 105, 108, 101, 95, 108, 101, 110, 58, 120, 32, 97>>

\* # checksum:sha256=ab00..0f file_len:1       (no path)
Line_ck_nopath == CkStart \o <<102, 105, 108, 101, 95, 108, 101, 110, 58, 49>>

\* o: a\                                       (a backslash and no token)
Line_trailing == <<111, 58, 32, 97, 92>>

\* # env-dep:F=\x                              (an escape that is none)
Line_escape == <<35, 32, 101, 110, 118, 45, 100, 101, 112, 58, 70, 61, 92, 120>>

LinePool ==
    { Line_deps, Line_deps_twice, Line_ck_a, Line_ck_bc, Line_ck_colon, Line_env,
      Line_ck_algo, Line_ck_digest, Line_ck_nolen, Line_ck_badlen, Line_ck_nopath,
      Line_trailing, Line_escape }

\* The content of a file of these lines, from line i on
RECURSIVE TextOf(_, _)
TextOf(ls, i) == IF i > Len(ls) THEN <<>> ELSE ls[i] \o <<10>> \o TextOf(ls, i + 1)

TextInit ==
    /\ src \in SeqsUpTo(LinePool, MaxLines)
    /\ rdi = NotCalled
    /\ CodecIdle /\ UnitIdle /\ SumIdle /\ HashIdle /\ PairIdle /\ LoopIdle

ParseRustcDepInfo ==
    /\ rdi = NotCalled
    /\ \E readable \in BOOLEAN :
          rdi' = [called |-> TRUE,
                  readable |-> readable,
                  ret |-> parse_rustc_dep_info(IF readable THEN Some(TextOf(src, 1)) ELSE None)]
    /\ UNCHANGED <<src, beside_text>>

TextNext == ParseRustcDepInfo

TextSpec == TextInit /\ [][TextNext]_vars

----------------------------------------------------------------------------
(* A checksum and its text form: a Checksum is formatted, the text is left  *)
(* as it is or changed in one place, and parsed.                            *)

\* 32-byte values: 00 .. 00, ff .. ff, ab 00 .. 00 0f, and 25 4a 6f .. (i * 37)
Digests ==
    { [i \in 1..32 |-> 0], [i \in 1..32 |-> 255], Digest1, [i \in 1..32 |-> (i * 37) % 256] }

Checksums == {Checksum_new(algo, value) : algo \in {Sha256, Blake3}, value \in Digests}

\* The bytes a change puts in: "=", "0", "F", "g", " "
EditBytes == {61, 48, 70, 103, 32}

SumInit ==
    /\ sum \in {Some(c) : c \in Checksums}
    /\ shown = NotCalled
    /\ back = NotCalled
    /\ CodecIdle /\ UnitIdle /\ TextIdle /\ HashIdle /\ PairIdle /\ LoopIdle

\* format!("{}", sum)
Display ==
    /\ shown = NotCalled
    /\ shown' = [called |-> TRUE,
                 ret |-> Checksum_fmt(unwrap(sum)),
                 s |-> IF is_ok(Checksum_fmt(unwrap(sum))) THEN Checksum_fmt(unwrap(sum))[2]
                       ELSE <<>>,
                 edited |-> FALSE]
    /\ UNCHANGED <<sum, back, beside_sum>>

\* The text is cut short, or a byte of it is replaced, or a byte is put
\* behind it.
Edit ==
    /\ shown.called /\ ~shown.edited /\ back = NotCalled
    /\ \/ \E k \in 0..(Len(shown.s) - 1) :
             shown' = [shown EXCEPT !.s = SubSeq(shown.s, 1, k), !.edited = TRUE]
       \/ \E i \in 1..Len(shown.s) : \E c \in EditBytes \ {shown.s[i]} :
             shown' = [shown EXCEPT !.s = [shown.s EXCEPT ![i] = c], !.edited = TRUE]
       \/ \E c \in EditBytes :
             shown' = [shown EXCEPT !.s = Append(shown.s, c), !.edited = TRUE]
    /\ UNCHANGED <<sum, back, beside_sum>>

\* Checksum::from_str(text)
FromStr ==
    /\ shown.called /\ back = NotCalled
    /\ back' = [called |-> TRUE, ret |-> Checksum_from_str(shown.s)]
    /\ UNCHANGED <<sum, shown, beside_sum>>

SumNext == Display \/ Edit \/ FromStr

SumSpec == SumInit /\ [][SumNext]_vars

----------------------------------------------------------------------------
(* Checksum::compute: the reader hands out its bytes in reads of any size   *)
(* that fits the buffer, or fails.                                          *)

\* The length of buf, 16 * 1024 in the source, and of the longest input
BufLen == 3

MaxInput == 5

\* The inputs: 11, 12, .. up to each length
Inputs == {[i \in 1..n |-> 10 + i] : n \in 0..MaxInput}

HashInit ==
    /\ contents \in {[bytes |-> b, pos |-> 0] : b \in Inputs}
    /\ digest = NotCalled
    /\ computed = NotCalled
    /\ CodecIdle /\ UnitIdle /\ TextIdle /\ SumIdle /\ PairIdle /\ LoopIdle

\* Lines 509-514: the call with its buffer, its hasher and its value
Compute ==
    /\ digest = NotCalled
    /\ \E algo \in {Sha256, Blake3} :
          digest' = [called |-> TRUE,
                     algo |-> algo,
                     buf |-> [i \in 1..BufLen |-> 0],
                     hasher |-> Hasher_new,
                     value |-> [i \in 1..32 |-> 0],
                     reads |-> <<>>]
    /\ UNCHANGED <<contents, computed, beside_hash>>

Running == digest.called /\ computed = NotCalled

Left == Len(contents.bytes) - contents.pos

\* Lines 525-529: a read that returns n > 0 bytes, and the update
ReadSome ==
    /\ Running
    /\ \E n \in 1..(IF Left < BufLen THEN Left ELSE BufLen) :
          /\ contents' = [contents EXCEPT !.pos = @ + n]
          /\ digest' = [digest EXCEPT
                 !.buf = read_into(@, SubSeq(contents.bytes, contents.pos + 1, contents.pos + n)),
                 !.hasher = Hasher_update(@,
                     fed(read_into(digest.buf,
                                   SubSeq(contents.bytes, contents.pos + 1, contents.pos + n)), n)),
                 !.reads = Append(@, n)]
    /\ UNCHANGED <<computed, beside_hash>>

\* Lines 525-528 and 531-532: the read that returns 0 at the end of the
\* input, the break, finish, and Ok(ret) at line 562
ReadEnd ==
    /\ Running
    /\ Left = 0
    /\ digest' = [digest EXCEPT
           !.value = [i \in 1..32 |->
                        IF i <= hash_len(digest.algo)
                        THEN Hasher_finish(digest.algo, digest.hasher)[i] ELSE @[i]],
           !.reads = Append(@, 0)]
    /\ computed' = [called |-> TRUE, ret |-> Ok(Checksum_new(digest.algo, digest'.value))]
    /\ UNCHANGED <<contents, beside_hash>>

\* Line 525: a read that fails, and the ? that returns its error
ReadFails ==
    /\ Running
    /\ computed' = [called |-> TRUE, ret |-> Err(<<"io::Error">>)]
    /\ UNCHANGED <<contents, digest, beside_hash>>

HashNext == Compute \/ ReadSome \/ ReadEnd \/ ReadFails

HashSpec == HashInit /\ [][HashNext]_vars

----------------------------------------------------------------------------
(* Two compilation units, each with a worker that calls translate_dep_info  *)
(* and then parse_dep_info with the paths of its unit.  A call touches the  *)
(* file system when it reads and when it writes; the workers take turns in  *)
(* any order.                                                               *)

Units == {1, 2}

\* The paths of a unit: /t/u1.d and /t/u1.dep, /t/u2.d and /t/u2.dep
rustc_dep_info(u) == <<47, 116, 47, 117>> \o <<48 + u>> \o <<46, 100>>

\* One path for both units
cargo_dep_info_shared(u) == <<47, 116, 47, 100, 101, 112>>

cargo_dep_info(u) == <<47, 116, 47, 117>> \o <<48 + u>> \o <<46, 100, 101, 112>>

\* The other arguments of the calls of a unit
UnitArgs(u) ==
    IF u = 1
    THEN [rustc_cwd |-> <<47, 112>>, pkg_root |-> <<47, 112>>, target_root |-> <<47, 116>>,
          allow_package |-> TRUE, env_config |-> HashMap_new, envs |-> HashMap_new]
    ELSE [rustc_cwd |-> <<47, 112>>, pkg_root |-> <<47, 113>>, target_root |-> <<47, 112, 47, 116>>,
          allow_package |-> TRUE, env_config |-> HashMap_new,
          envs |-> [k \in {Str_K} |-> <<120>>]]

\* What rustc left for a unit:
\*   o: a | # env-dep:K=v
\*   o: /t/b t/b
\*   o: a\
PairTexts ==
    { <<111, 58, 32, 97, 10, 35, 32, 101, 110, 118, 45, 100, 101, 112, 58, 75, 61, 118, 10>>,
      <<111, 58, 32, 47, 116, 47, 98, 32, 116, 47, 98, 10>>,
      <<111, 58, 32, 97, 92, 10>> }

Paths == {rustc_dep_info(u) : u \in Units} \cup {cargo_dep_info(u) : u \in Units}

PairInit ==
    /\ \E texts \in [Units -> PairTexts] :
          fsys = [p \in Paths |->
                  IF \E u \in Units : p = rustc_dep_info(u)
                  THEN Some(texts[CHOOSE u \in Units : p = rustc_dep_info(u)])
                  ELSE None]
    /\ jobs = [u \in Units |-> [pc |-> "start"]]
    /\ CodecIdle /\ UnitIdle /\ TextIdle /\ SumIdle /\ HashIdle /\ LoopIdle

\* translate_dep_info, lines 248-324: the file of rustc is read and the
\* record is built
TranslateReadWith(u, depinfo) ==
    \E order \in Orders(FilesOf(depinfo)) :
        jobs' = [jobs EXCEPT ![u] =
                    [pc |-> IF is_some(translate_depinfo(depinfo, order, UnitArgs(u).rustc_cwd,
                                           UnitArgs(u).pkg_root, UnitArgs(u).target_root,
                                           UnitArgs(u).envs, UnitArgs(u).allow_package,
                                           UnitArgs(u).env_config).write)
                            THEN "write" ELSE "translated",
                     order |-> order,
                     out |-> translate_depinfo(depinfo, order, UnitArgs(u).rustc_cwd,
                                               UnitArgs(u).pkg_root, UnitArgs(u).target_root,
                                               UnitArgs(u).envs, UnitArgs(u).allow_package,
                                               UnitArgs(u).env_config)]]

TranslateRead(u) ==
    /\ jobs[u].pc = "start"
    /\ TranslateReadWith(u, parse_rustc_dep_info(fsys[rustc_dep_info(u)]))
    /\ UNCHANGED <<fsys, beside_pair>>

\* translate_dep_info, line 325: paths::write; met is where the other
\* worker is at that time
TranslateWrite(u) ==
    /\ jobs[u].pc = "write"
    /\ fsys' = [fsys EXCEPT ![cargo_dep_info(u)] = jobs[u].out.write]
    /\ jobs' = [jobs EXCEPT ![u] =
                   [@ EXCEPT !.pc = "translated"] @@ [met |-> jobs[3 - u].pc]]
    /\ UNCHANGED beside_pair

\* parse_dep_info: the file is read and decoded
ParseUnit(u) ==
    /\ jobs[u].pc = "translated"
    /\ jobs' = [jobs EXCEPT ![u] =
                   [@ EXCEPT !.pc = "done"] @@
                   [ret |-> parse_dep_info(UnitArgs(u).pkg_root, UnitArgs(u).target_root,
                                           fsys[cargo_dep_info(u)], FALSE)]]
    /\ UNCHANGED <<fsys, beside_pair>>

PairNext == \E u \in Units : TranslateRead(u) \/ TranslateWrite(u) \/ ParseUnit(u)

PairSpec == PairInit /\ [][PairNext]_vars

----------------------------------------------------------------------------
(* The loop of parse_rustc_dep_info, a line at a time: the file is read,    *)
(* each line takes the branch its text selects, and the record is returned  *)
(* behind the last line, or the error of the line that fails.               *)

\* p: z
Line_deps_other == <<112, 58, 32, 122>>

\* # checksum:sha256=ab00..0f file_len:20 a   (a second time a, another length)
Line_ck_a_again == CkStart \o <<102, 105, 108, 101, 95, 108, 101, 110, 58, 50, 48, 32, 97>>

\* # checksum:sha256=ab00..0f file_len:5 z
Line_ck_z == CkStart \o <<102, 105, 108, 101, 95, 108, 101, 110, 58, 53, 32, 122>>

\* # env-dep:A=b=c                             (a value with = in it)
Line_env_eq == <<35, 32, 101, 110, 118, 45, 100, 101, 112, 58, 65, 61, 98, 61, 99>>

\* # env-dep:E=                                (an empty value)
Line_env_empty == <<35, 32, 101, 110, 118, 45, 100, 101, 112, 58, 69, 61>>

\* # env-dep:N                                 (no =)
Line_env_none == <<35, 32, 101, 110, 118, 45, 100, 101, 112, 58, 78>>

\* # env-dep:X: y=1                            (": " in the name)
Line_env_colon == <<35, 32, 101, 110, 118, 45, 100, 101, 112, 58, 88, 58, 32, 121, 61, 49>>

\* # env-dep:P\n=a\\b\r                        (escapes in name and value)
Line_env_esc == <<35, 32, 101, 110, 118, 45, 100, 101, 112, 58, 80, 92, 110, 61, 97, 92, 92, 98, 92, 114>>

\* # a comment
Line_other == <<35, 32, 97, 32, 99, 111, 109, 109, 101, 110, 116>>

LoopPool ==
    { Line_deps, Line_deps_twice, Line_deps_other, Line_trailing,
      Line_ck_a, Line_ck_a_again, Line_ck_bc, Line_ck_z, Line_ck_colon, Line_ck_nolen,
      Line_env, Line_env_eq, Line_env_empty, Line_env_none, Line_env_colon, Line_env_esc,
      Line_escape, Line_other }

\* Dependency lines made of tokens: a, b\, \, c\\, d and e:, with a blank or
\* a tab and a blank between them
MaxToks == 3

TokPool == { <<97>>, <<98, 92>>, <<92>>, <<99, 92, 92>>, <<100>>, <<101, 58>> }

TokSeps == { <<32>>, <<9, 32>> }

RECURSIVE TokText(_, _, _)
TokText(toks, sep, i) ==
    IF i > Len(toks) THEN <<>>
    ELSE (IF i > 1 THEN sep ELSE <<>>) \o toks[i] \o TokText(toks, sep, i + 1)

\* o: <tokens>
DepLine(toks, sep) == <<111, 58, 32>> \o TokText(toks, sep, 1)

DepLines == { DepLine(toks, sep) : toks \in SeqsUpTo(TokPool, MaxToks), sep \in TokSeps }

\* Env-dep lines with any short text of \, n, r, x and = behind the marker
MaxEsc == 3

EscBytes == { 92, 110, 114, 120, 61 }

EnvLines == { Str_env_dep \o t : t \in SeqsUpTo(EscBytes, MaxEsc) }

\* What rustc writes for a name or a value: \ as \\, newline as \n and
\* carriage return as \r
RECURSIVE escape_env(_, _)
escape_env(s, i) ==
    IF i > Len(s) THEN <<>>
    ELSE (IF s[i] = 92 THEN <<92, 92>>
          ELSE IF s[i] = 10 THEN <<92, 110>>
          ELSE IF s[i] = 13 THEN <<92, 114>>
          ELSE <<s[i]>>) \o escape_env(s, i + 1)

\* Env-dep lines as rustc writes them for the variable F and any short value
\* of \, newline, carriage return, n and =
MaxRaw == 3

RawBytes == { 92, 10, 13, 110, 61 }

RawValues == SeqsUpTo(RawBytes, MaxRaw)

WrittenLine(v) == Str_env_dep \o <<70, 61>> \o escape_env(v, 1)

\* The same for a variable of that name: no =
WrittenName(v) == Str_env_dep \o escape_env(v, 1)

WrittenLines ==
    { WrittenLine(v) : v \in RawValues }
        \cup { WrittenName(v) : v \in { w \in RawValues : \A k \in 1..Len(w) : w[k] # 61 } }

LoopFiles ==
    SeqsUpTo(LoopPool, MaxLines)
        \cup { <<l>> : l \in DepLines \cup EnvLines \cup WrittenLines }
        \cup { <<Line_env, l>> : l \in DepLines }

LoopInit ==
    /\ lp \in { [pc |-> "read", file |-> f, ls |-> <<>>, i |-> 0,
                ret |-> RustcDepInfo_default, found_deps |-> FALSE, out |-> None] :
                f \in LoopFiles }
    /\ CodecIdle /\ UnitIdle /\ TextIdle /\ SumIdle /\ HashIdle /\ PairIdle

\* Line 330 and the head of the loop at line 334
ReadDepInfo ==
    /\ lp.pc = "read"
    /\ \E readable \in BOOLEAN :
          lp' = IF readable /\ is_some(from_utf8(TextOf(lp.file, 1)))
                THEN [lp EXCEPT !.pc = "loop", !.ls = lines(TextOf(lp.file, 1)), !.i = 1]
                ELSE [lp EXCEPT !.pc = "done", !.out = Some(Err(<<"read">>))]
    /\ UNCHANGED beside_loop

\* The line the loop is at
AtLine == lp.pc = "loop" /\ lp.i <= Len(lp.ls)

\* The loop goes on behind a line, or the function returns the line's error
LoopStep(st) ==
    IF st.ok
    THEN [lp EXCEPT !.i = @ + 1, !.ret = st.ret, !.found_deps = st.found_deps]
    ELSE [lp EXCEPT !.pc = "done", !.out = Some(Err(st.err))]

\* Lines 335-345
EnvDepLine ==
    /\ AtLine
    /\ is_some(str_strip_prefix(lp.ls[lp.i], Str_env_dep))
    /\ lp' = LoopStep(env_dep_line(lp.ret, lp.found_deps,
                         splitn(unwrap(str_strip_prefix(lp.ls[lp.i], Str_env_dep)), 2, 61)))
    /\ UNCHANGED beside_loop

\* Lines 346-363
DepsLine ==
    /\ AtLine
    /\ ~is_some(str_strip_prefix(lp.ls[lp.i], Str_env_dep))
    /\ is_some(find(lp.ls[lp.i], Str_colon_space))
    /\ lp' = LoopStep(deps_line(lp.ret, lp.found_deps, lp.ls[lp.i],
                                unwrap(find(lp.ls[lp.i], Str_colon_space)) - 1))
    /\ UNCHANGED beside_loop

\* Lines 364-380
ChecksumLine ==
    /\ AtLine
    /\ ~is_some(str_strip_prefix(lp.ls[lp.i], Str_env_dep))
    /\ ~is_some(find(lp.ls[lp.i], Str_colon_space))
    /\ is_some(str_strip_prefix(lp.ls[lp.i], Str_checksum))
    /\ lp' = LoopStep(checksum_line(lp.ret, lp.found_deps,
                         splitn(unwrap(str_strip_prefix(lp.ls[lp.i], Str_checksum)), 3, 32)))
    /\ UNCHANGED beside_loop

\* A line that is none of the three: line 381
OtherLine ==
    /\ AtLine
    /\ ~is_some(str_strip_prefix(lp.ls[lp.i], Str_env_dep))
    /\ ~is_some(find(lp.ls[lp.i], Str_colon_space))
    /\ ~is_some(str_strip_prefix(lp.ls[lp.i], Str_checksum))
    /\ lp' = LoopStep(LineOk(lp.ret, lp.found_deps))
    /\ UNCHANGED beside_loop

\* Line 382
Return ==
    /\ lp.pc = "loop"
    /\ lp.i > Len(lp.ls)
    /\ lp' = [lp EXCEPT !.pc = "done", !.out = Some(Ok(lp.ret))]
    /\ UNCHANGED beside_loop

LoopNext == ReadDepInfo \/ EnvDepLine \/ DepsLine \/ ChecksumLine \/ OtherLine \/ Return

LoopSpec == LoopInit /\ [][LoopNext]_vars

----------------------------------------------------------------------------
(* Properties of the codec, checked under CodecSpec.                        *)

Parsed == res.kind # "NotParsed"

\* s is what is left of t when a prefix of t is consumed
IsSuffix(s, t) == Len(s) <= Len(t) /\ s = SubSeq(t, Len(t) - Len(s) + 1, Len(t))

C2_ParseTotal ==
    Parsed =>
        /\ res.kind \in {"None", "Some"}
        /\ IsSuffix(res.rest, data)
        /\ res.kind = "Some" =>
              /\ Len(res.info.files) = unwrap(res.nfiles)
              /\ Len(res.info.env) = unwrap(res.nenv)

\* C3: parse of every proper prefix of r.serialize() returns None.
C3_TruncationIsNone == (how = "truncated" /\ Parsed) => res.kind = "None"

\* C4: a path_kind byte other than 0 or 1 in a file entry the decoder reached
\* makes parse return None; a pushed entry has PackageRootRelative for 0 and
\* TargetRootRelative for 1; the kind bytes of a serialization are 0 (for
\* PackageRootRelative) or 1 (for TargetRootRelative).
C4_PathKind ==
    Parsed =>
        /\ (\E i \in 1..Len(res.file_reads) :
               /\ is_some(res.file_reads[i].kind)
               /\ unwrap(res.file_reads[i].kind) \notin {0, 1})
           => res.kind = "None"
        /\ res.kind = "Some" =>
              \A i \in 1..Len(res.info.files) :
                  res.info.files[i][1] =
                      IF res.file_reads[i].kind = Some(0) THEN PackageRootRelative
                      ELSE TargetRootRelative
        /\ how = "serialized" =>
              /\ Len(res.file_reads) = Len(rec.files)
              /\ \A i \in 1..Len(rec.files) :
                    res.file_reads[i].kind =
                        Some(IF rec.files[i][1] = PackageRootRelative THEN 0 ELSE 1)

\* A second file entry with a bad kind byte, behind a first one that was pushed.
C4_Witness ==
    /\ how = "damaged" /\ res.kind = "None"
    /\ Len(res.file_reads) = 2
    /\ res.file_reads[1].pushed
    /\ res.file_reads[2].kind \in {Some(2), Some(128)}
    /\ Len(rec.env) = 1

\* A checksum the decoder was told to read (has_checksum set) and could not:
\* its bytes are not UTF-8, or its length runs past the end of the input.
BadChecksum(r) ==
    /\ r.has_checksum = Some(TRUE)
    /\ \/ is_some(r.checksum) /\ ~utf8_from(unwrap(r.checksum), 1)
       \/ is_some(r.checksum_len) /\ ~is_some(r.checksum)

\* C5: such a checksum makes parse return None for the whole record.
C5_BadChecksumIsNone ==
    (Parsed /\ \E i \in 1..Len(res.file_reads) : BadChecksum(res.file_reads[i]))
        => res.kind = "None"

\* An env entry whose key or value is not UTF-8, or whose key or value length
\* runs past the end of the input.
BadEnv(r) ==
    \/ is_some(r.key) /\ ~utf8_from(unwrap(r.key), 1)
    \/ is_some(r.value) /\ ~utf8_from(unwrap(r.value), 1)
    \/ is_some(r.key_len) /\ ~is_some(r.key)
    \/ is_some(r.value_len) /\ ~is_some(r.value)

\* C6: such an env entry makes parse return None for the whole record,
\* the file entries already decoded included.
C6_BadEnvIsNone ==
    (Parsed /\ \E i \in 1..Len(res.env_reads) : BadEnv(res.env_reads[i]))
        => res.kind = "None"

\* A key that is not UTF-8, behind two file entries that were decoded.
C6_Witness ==
    /\ how = "damaged" /\ res.kind = "None"
    /\ Len(res.file_reads) = 2 /\ res.file_reads[2].pushed
    /\ Len(res.env_reads) = 1
    /\ res.env_reads[1].key = Some(<<128>>)

\* The bytes the decoding call was given parse to a record.
Decodable == how # "removed" /\ res.kind = "Some"

\* C7: a parse_dep_info call that returns never returns an error: it returns
\* Ok(None) when the file cannot be read and when its bytes fail
\* EncodedDepInfo::parse, and Ok(Some(record)) otherwise.
C7_NeverAnError ==
    (pdi.called /\ pdi.ret # <<"Abort">>) =>
        /\ pdi.ret[1] = "Ok"
        /\ how = "removed" => pdi.ret = Ok(None)
        /\ (how # "removed" /\ res.kind = "None") => pdi.ret = Ok(None)
        /\ Decodable => is_some(pdi.ret[2])

\* The file was removed behind a record of two files and one env entry.
C7_Witness ==
    /\ pdi.called /\ how = "removed"
    /\ pdi.ret = Ok(None)
    /\ Len(rec.files) = 2 /\ Len(rec.env) = 1

\* The record the decoded bytes hold, and the path entry i reconstructs to.
Decoded == res.info

PathWith(i, root) == make_absolute_path(Decoded.files[i][1], PkgRoot, root, Decoded.files[i][2])

PathOf(i) == PathWith(i, pdi.target_root)

\* Entry i carries a checksum text that Checksum::from_str rejects.
Rejected(i) ==
    /\ is_some(Decoded.files[i][3])
    /\ ~is_ok(Checksum_from_str(unwrap(Decoded.files[i][3])[2]))

\* What entry i is to be returned with: None for no checksum and for a
\* rejected one, the file length and the checksum otherwise.
ChecksumOf(i) ==
    IF ~is_some(Decoded.files[i][3]) \/ Rejected(i) THEN None
    ELSE Some(<<unwrap(Decoded.files[i][3])[1],
                Checksum_from_str(unwrap(Decoded.files[i][3])[2])[2]>>)

\* C8, as stated: every decoded file entry is returned under its
\* reconstructed path, a rejected checksum text as None and every other
\* entry unchanged, the env entries are returned unchanged, and the call
\* returns Ok(Some(..)).
C8_EveryEntryReturned ==
    (pdi.called /\ pdi.ret # <<"Abort">> /\ Decodable) =>
        /\ pdi.ret[1] = "Ok" /\ is_some(pdi.ret[2])
        /\ unwrap(pdi.ret[2]).env = Decoded.env
        /\ DOMAIN unwrap(pdi.ret[2]).files = {PathOf(i) : i \in 1..Len(Decoded.files)}
        /\ \A i \in 1..Len(Decoded.files) :
              unwrap(pdi.ret[2]).files[PathOf(i)] = ChecksumOf(i)

\* Entry i is the last one that reconstructs to its path.
LastOfPath(i) == \A j \in 1..Len(Decoded.files) : PathOf(j) = PathOf(i) => j <= i

\* C8, amended: the same, except that of several file entries that
\* reconstruct to the same path the returned map holds the last one.
C8_LastEntryReturned ==
    (pdi.called /\ pdi.ret # <<"Abort">> /\ Decodable) =>
        /\ pdi.ret[1] = "Ok" /\ is_some(pdi.ret[2])
        /\ unwrap(pdi.ret[2]).env = Decoded.env
        /\ DOMAIN unwrap(pdi.ret[2]).files = {PathOf(i) : i \in 1..Len(Decoded.files)}
        /\ \A i \in 1..Len(Decoded.files) :
              LastOfPath(i) => unwrap(pdi.ret[2]).files[PathOf(i)] = ChecksumOf(i)

\* A rejected checksum text in front of an entry of another path whose
\* checksum is accepted, and an env entry.
C8_Witness ==
    /\ pdi.called /\ pdi.ret # <<"Abort">> /\ Decodable
    /\ Len(Decoded.files) = 2 /\ Len(Decoded.env) = 1
    /\ Rejected(1)
    /\ PathOf(1) # PathOf(2)
    /\ is_some(ChecksumOf(2))
    /\ unwrap(pdi.ret[2]).files[PathOf(1)] = None

\* The build root the call was not given, and what the same bytes decode to
\* with it
Moved == CHOOSE root \in TargetRoots : root # pdi.target_root

Redecoded == unwrap(parse_dep_info_decoded(PkgRoot, Moved, res)[2])

Returned == unwrap(pdi.ret[2])

\* A stored path put behind a root: an absolute one stays as it is
Rejoined(root, path) ==
    IF Len(path) > 0 /\ path[1] = 47 THEN path ELSE root \o <<47>> \o path

\* Entry i is stored TargetRootRelative with a relative path
Relocatable(i) ==
    /\ Decoded.files[i][1] = TargetRootRelative
    /\ ~(Len(Decoded.files[i][2]) > 0 /\ Decoded.files[i][2][1] = 47)

\* Each entry reconstructs to the rejoined path, and with the other build
\* root to the same path unless it is relocatable
Reconstructed ==
    /\ \A i \in 1..Len(Decoded.files) :
          /\ PathOf(i) = Rejoined(IF Decoded.files[i][1] = PackageRootRelative
                                  THEN PkgRoot ELSE pdi.target_root, Decoded.files[i][2])
          /\ PathWith(i, Moved) = IF Relocatable(i) THEN Rejoined(Moved, Decoded.files[i][2])
                                   ELSE PathOf(i)
    /\ DOMAIN Returned.files = {PathOf(i) : i \in 1..Len(Decoded.files)}
    /\ DOMAIN Redecoded.files = {PathWith(i, Moved) : i \in 1..Len(Decoded.files)}
    /\ Redecoded.env = Returned.env

\* Every entry has the same checksum under both build roots
SameChecksums ==
    \A i \in 1..Len(Decoded.files) :
        Redecoded.files[PathWith(i, Moved)] = Returned.files[PathOf(i)]

\* Two entries reconstruct to one path with both build roots or with neither
SameClashes ==
    \A i, j \in 1..Len(Decoded.files) :
        (PathOf(i) = PathOf(j)) <=> (PathWith(i, Moved) = PathWith(j, Moved))

\* C12 as stated: PackageRootRelative entries are rejoined onto pkg_root and
\* TargetRootRelative ones onto target_root, an absolute stored path staying
\* as it is; decoding the same bytes with another build root changes the
\* paths of the TargetRootRelative entries with a relative path and nothing
\* else: no other path, no checksum, no env entry.
C12_RelocationExact ==
    (pdi.called /\ pdi.ret # <<"Abort">> /\ Decodable) => (Reconstructed /\ SameChecksums)

\* C12, amended: the same, the checksums being unchanged when no two entries
\* reconstruct to one path with one build root and to two with the other.
C12_Relocation ==
    (pdi.called /\ pdi.ret # <<"Abort">> /\ Decodable) =>
        (Reconstructed /\ (SameClashes => SameChecksums))

\* A relative and an absolute TargetRootRelative entry decoded with the moved
\* build root: the first is found below it, the second where it was.
C12_Witness ==
    /\ pdi.called /\ pdi.ret # <<"Abort">> /\ Decodable
    /\ pdi.target_root = TargetRoot2
    /\ Len(Decoded.files) = 2 /\ Len(Decoded.env) = 1
    /\ Relocatable(1) /\ PathOf(1) = <<47, 112, 47, 97>>
    /\ Decoded.files[2][2] = <<47, 111>> /\ PathOf(2) = <<47, 111>>
    /\ DOMAIN Redecoded.files = {<<47, 116, 47, 97>>, <<47, 111>>}

----------------------------------------------------------------------------
(* Properties of translate_dep_info, checked under Spec.                    *)

\* The last call of translate_dep_info returned Ok: it parsed a record
\* (NativeRecord) and built the one it wrote (Stored)
Translated_Ok == call.called /\ is_ok(call.out.ret)

NativeRecord == unwrap(call.out.depinfo)

Stored == unwrap(call.out.on_disk_info)

\* The canonical roots of the call
CanonTarget == try_canonicalize(cfg.target_root)[2]

CanonPkg == try_canonicalize(cfg.pkg_root)[2]

\* A dependency path joined onto rustc_cwd, and canonicalized if that works
AbsOf(f) == IF Len(f) > 0 /\ f[1] = 47 THEN f ELSE cfg.rustc_cwd \o <<47>> \o f

CanonOf(f) ==
    IF is_ok(try_canonicalize(AbsOf(f))) THEN try_canonicalize(AbsOf(f))[2] ELSE AbsOf(f)

\* path is root or lies below it; what is left of it without root
Under(path, root) ==
    \/ path = root
    \/ Len(path) > Len(root) + 1 /\ SubSeq(path, 1, Len(root) + 1) = root \o <<47>>

Below(path, root) == SubSeq(path, Len(root) + 2, Len(path))

\* What a dependency path is to be stored as, None for not at all
Classified(f) ==
    IF Under(CanonOf(f), CanonTarget)
    THEN Some(<<TargetRootRelative, Below(CanonOf(f), CanonTarget)>>)
    ELSE IF Under(CanonOf(f), CanonPkg)
    THEN (IF cfg.allow_package THEN Some(<<PackageRootRelative, Below(CanonOf(f), CanonPkg)>>)
          ELSE None)
    ELSE Some(<<TargetRootRelative, AbsOf(f)>>)

\* The stored entries of a kind and path
StoredAs(e) == {i \in 1..Len(Stored.files) : <<Stored.files[i][1], Stored.files[i][2]>> = e}

\* C9: each dependency path is stored by the first rule that matches its
\* canonical form (the joined path when canonicalization fails): below the
\* canonical build root as TargetRootRelative without the root, else below
\* the canonical package root as PackageRootRelative without the root when
\* allow_package holds and not at all when it does not, else as
\* TargetRootRelative with the joined absolute path; a path yields at most one
\* stored entry, so there are as many entries of a kind and path as there are
\* dependency paths classified so, and no others.
C9_Classification ==
    Translated_Ok =>
        /\ \A f \in DOMAIN NativeRecord.files :
              is_some(Classified(f)) =>
                  Cardinality(StoredAs(unwrap(Classified(f))))
                      = Cardinality({g \in DOMAIN NativeRecord.files :
                                        Classified(g) = Classified(f)})
        /\ Len(Stored.files)
              = Cardinality({f \in DOMAIN NativeRecord.files : is_some(Classified(f))})

\* The build root lies inside the package root and allow_package is false:
\* of three dependency paths the one below the package root is left out, the
\* one below the build root and the one outside both roots are stored.
C9_Witness ==
    /\ Translated_Ok
    /\ cfg.target_root = <<47, 112, 47, 116>> /\ ~cfg.allow_package
    /\ Cardinality(DOMAIN NativeRecord.files) = 3
    /\ Len(Stored.files) = 2
    /\ StoredAs(<<TargetRootRelative, <<98>>>>) # {}
    /\ StoredAs(<<TargetRootRelative, <<47, 116, 47, 98>>>>) # {}

\* The parsed env entry i is to be kept
Kept(i) ==
    \/ NativeRecord.env[i][1] \in DOMAIN cfg.env_config
    \/ NativeRecord.env[i][1] \notin DOMAIN cfg.envs
    \/ NativeRecord.env[i][1] = CARGO_ENV

\* The parsed env entries from i on that are to be kept
RECURSIVE KeptFrom(_)
KeptFrom(i) ==
    IF i > Len(NativeRecord.env) THEN <<>>
    ELSE IF Kept(i) THEN <<NativeRecord.env[i]>> \o KeptFrom(i + 1)
    ELSE KeptFrom(i + 1)

\* C10: the stored env entries are the parsed ones whose name is a key of
\* env_config, or is no key of the environment of the rustc command, or is
\* CARGO, in the order they were parsed in and with their values as parsed.
C10_EnvFiltering == Translated_Ok => Stored.env = KeptFrom(1)

\* K, CARGO and O were parsed, K and CARGO are in the environment of the
\* command and nothing is configured: CARGO and O are stored, K is not.
C10_Witness ==
    /\ Translated_Ok
    /\ Len(NativeRecord.env) = 3
    /\ DOMAIN cfg.envs = {Str_K, CARGO_ENV} /\ DOMAIN cfg.env_config = {}
    /\ Stored.env = << <<CARGO_ENV, None>>, <<Str_O, Some(<<49>>)>> >>

\* The file of rustc names OUT_DIR and MY_FLAG and no other variable
FlagsParsed ==
    /\ Translated_Ok
    /\ NativeRecord.env = << <<Str_OUT_DIR, Some(<<47, 120>>)>>, <<Str_MY_FLAG, Some(<<49>>)>> >>
    /\ Str_OUT_DIR \in DOMAIN cfg.envs

StoredNames == {Stored.env[i][1] : i \in 1..Len(Stored.env)}

\* C11 as stated: with OUT_DIR=/x and MY_FLAG=1 both set on the rustc command
\* and env-deps OUT_DIR and MY_FLAG, OUT_DIR is dropped and MY_FLAG is kept
\* when nothing is configured, and MY_FLAG is kept when it is configured.
C11_FlagAlwaysKept ==
    (FlagsParsed /\ Str_MY_FLAG \in DOMAIN cfg.envs) =>
        /\ DOMAIN cfg.env_config = {} => StoredNames = {Str_MY_FLAG}
        /\ Str_MY_FLAG \in DOMAIN cfg.env_config => Str_MY_FLAG \in StoredNames

\* C11: with OUT_DIR=/x set on the rustc command and env-deps OUT_DIR and
\* MY_FLAG, OUT_DIR is dropped; MY_FLAG is kept when it is configured or is
\* not set on the command (it is inherited), and dropped when it is set on
\* the command and not configured.
C11_FlagKeptUnlessInjected ==
    FlagsParsed =>
        /\ Str_OUT_DIR \notin StoredNames
        /\ Str_MY_FLAG \in StoredNames
              <=> (Str_MY_FLAG \in DOMAIN cfg.env_config \/ Str_MY_FLAG \notin DOMAIN cfg.envs)

\* Nothing configured, OUT_DIR alone set on the command: MY_FLAG=1 is all
\* that is stored.
C11_Witness ==
    /\ FlagsParsed
    /\ DOMAIN cfg.envs = {Str_OUT_DIR} /\ DOMAIN cfg.env_config = {}
    /\ Stored.env = << <<Str_MY_FLAG, Some(<<49>>)>> >>

----------------------------------------------------------------------------
(* Properties of parse_rustc_dep_info, checked under TextSpec.              *)

\* The file names of the lines: a, "b c.rs", "d: e"
Str_a == <<97>>

Str_b_c_rs == <<98, 32, 99, 46, 114, 115>>

Str_d_e == <<100, 58, 32, 101>>

\* The paths a dependency line lists
Listed(line) ==
    IF line = Line_deps THEN {Str_a, Str_b_c_rs}
    ELSE IF line \in {Line_deps_twice, Line_trailing} THEN {Str_a}
    ELSE {}

\* The path and (file_len, checksum) of a well-formed checksum line
Attached(line) ==
    IF line = Line_ck_a THEN Some(<<Str_a, <<10, Checksum_new(Sha256, Digest1)>> >>)
    ELSE IF line = Line_ck_bc THEN Some(<<Str_b_c_rs, <<7, Checksum_new(Sha256, Digest1)>> >>)
    ELSE IF line = Line_ck_colon THEN Some(<<Str_d_e, <<3, Checksum_new(Sha256, Digest1)>> >>)
    ELSE None

\* The first dependency line of the file, 0 when there is none
FirstDeps ==
    IF \A i \in 1..Len(src) : Listed(src[i]) = {} THEN 0
    ELSE CHOOSE i \in 1..Len(src) :
            Listed(src[i]) # {} /\ \A j \in 1..(i - 1) : Listed(src[j]) = {}

\* The checksum lines for a path
LinesFor(path) ==
    {i \in 1..Len(src) : is_some(Attached(src[i])) /\ unwrap(Attached(src[i]))[1] = path}

\* The files the lines of the file stand for: the listed ones and the ones
\* with a checksum line, each with what its last checksum line attaches
FilesStoodFor ==
    [path \in (IF FirstDeps = 0 THEN {} ELSE Listed(src[FirstDeps]))
                \cup {unwrap(Attached(src[i]))[1] : i \in {j \in 1..Len(src) : is_some(Attached(src[j]))}}
        |-> IF LinesFor(path) = {} THEN None
            ELSE Some(unwrap(Attached(src[CHOOSE i \in LinesFor(path) :
                                             \A j \in LinesFor(path) : j <= i]))[2])]

\* C13: in the result of a parse that succeeds the files are those the
\* dependency line lists and those a well-formed checksum line names, each
\* once; a file has the file length and checksum of its checksum line,
\* whether that line stands before or behind the dependency line and
\* whether or not its path has spaces, and None when it has no such line.
C13_ChecksumAttached ==
    (rdi.called /\ is_ok(rdi.ret)) => rdi.ret[2].files = FilesStoodFor

\* The checksum lines that are not well-formed
Malformed == {Line_ck_algo, Line_ck_digest, Line_ck_nolen, Line_ck_badlen, Line_ck_nopath}

NotMalformed(line) == line \notin Malformed

\* C14: a malformed checksum line is skipped: the call returns what it
\* returns for the file without these lines, and it fails only for a file
\* that cannot be read or has a dependency line with a token that ends in a
\* backslash and no token behind it, or an env-dep line with a malformed
\* escape.
C14_MalformedSkipped ==
    (rdi.called /\ rdi.readable) =>
        /\ rdi.ret = parse_rustc_dep_info(Some(TextOf(SelectSeq(src, NotMalformed), 1)))
        /\ ~is_ok(rdi.ret) => \E i \in 1..Len(src) : src[i] \in {Line_trailing, Line_escape}

----------------------------------------------------------------------------
(* Properties of Checksum, checked under SumSpec.                           *)

\* C15: the text a Checksum is formatted to parses back to that Checksum,
\* with the same algorithm and the same 32 bytes.
C15_TextRoundTrip ==
    (shown.called /\ ~shown.edited /\ back.called) =>
        /\ is_ok(shown.ret)
        /\ back.ret = Ok(unwrap(sum))
        /\ back.ret[2].algo = unwrap(sum).algo /\ back.ret[2].value = unwrap(sum).value

\* A blake3 checksum whose bytes differ took the round trip.
C15_Witness ==
    /\ shown.called /\ ~shown.edited /\ back.called
    /\ unwrap(sum).algo = Blake3
    /\ unwrap(sum).value[1] = 37 /\ unwrap(sum).value[32] = 160
    /\ is_ok(back.ret) /\ back.ret[2] = unwrap(sum)

\* The text handed to from_str; where its first "=" is, behind its end
\* when it has none; what stands in front of that
Text == shown.s

FirstEq == IF \A i \in 1..Len(Text) : Text[i] # 61 THEN Len(Text) + 1
           ELSE CHOOSE i \in 1..Len(Text) : Text[i] = 61 /\ \A j \in 1..(i - 1) : Text[j] # 61

NamePart == SubSeq(Text, 1, FirstEq - 1)

\* A hexadecimal digit of either case
IsHexDigit(c) == (c >= 48 /\ c <= 57) \/ (c >= 97 /\ c <= 102) \/ (c >= 65 /\ c <= 70)

\* The text is an algorithm name, "=" and 64 hexadecimal digits
HasTextForm ==
    /\ NamePart \in {Str_sha256, Str_blake3}
    /\ Len(Text) = FirstEq + 64
    /\ \A i \in (FirstEq + 1)..Len(Text) : IsHexDigit(Text[i])

NamedAlgo == IF NamePart = Str_sha256 THEN Sha256 ELSE Blake3

\* C16: from_str returns InvalidChecksumAlgo when the algorithm name is
\* neither sha256 nor blake3, else InvalidFormat when the text has no "=",
\* else InvalidChecksum(algorithm) when what follows the "=" is not 64
\* hexadecimal digits, and Ok only for a text of the form
\* <algorithm>=<hex digest>.
C16_ErrorTaxonomy ==
    back.called =>
        /\ NamePart \notin {Str_sha256, Str_blake3} => back.ret = Err(<<"InvalidChecksumAlgo">>)
        /\ (NamePart \in {Str_sha256, Str_blake3} /\ FirstEq > Len(Text))
              => back.ret = Err(<<"InvalidFormat">>)
        /\ (NamePart \in {Str_sha256, Str_blake3} /\ FirstEq <= Len(Text) /\ ~HasTextForm)
              => back.ret = Err(<<"InvalidChecksum", NamedAlgo>>)
        /\ is_ok(back.ret) => HasTextForm

\* Where the second "=" of the text is, behind its end when it has none;
\* what stands between the first and that
SecondEq ==
    IF \A i \in (FirstEq + 1)..Len(Text) : Text[i] # 61 THEN Len(Text) + 1
    ELSE CHOOSE i \in (FirstEq + 1)..Len(Text) :
            Text[i] = 61 /\ \A j \in (FirstEq + 1)..(i - 1) : Text[j] # 61

HexPart == SubSeq(Text, FirstEq + 1, SecondEq - 1)

HexPartFits == Len(HexPart) = 64 /\ \A i \in 1..Len(HexPart) : IsHexDigit(HexPart[i])

\* C16, amended: the same, with what follows the first "=" read up to the
\* second "=" only: from_str returns Ok exactly when the name is sha256 or
\* blake3 and 64 hexadecimal digits stand between the first "=" and the
\* second "=" or the end of the text; what follows a second "=" is not
\* looked at.
C16_ErrorTaxonomyOfParts ==
    back.called =>
        /\ NamePart \notin {Str_sha256, Str_blake3} => back.ret = Err(<<"InvalidChecksumAlgo">>)
        /\ (NamePart \in {Str_sha256, Str_blake3} /\ FirstEq > Len(Text))
              => back.ret = Err(<<"InvalidFormat">>)
        /\ (NamePart \in {Str_sha256, Str_blake3} /\ FirstEq <= Len(Text) /\ ~HexPartFits)
              => back.ret = Err(<<"InvalidChecksum", NamedAlgo>>)
        /\ is_ok(back.ret)
              <=> (NamePart \in {Str_sha256, Str_blake3} /\ FirstEq <= Len(Text) /\ HexPartFits)
        /\ is_ok(back.ret) => back.ret[2].algo = NamedAlgo

\* The text was cut down to "blake3": the name is right and there is no "=".
C16_Witness ==
    /\ back.called /\ shown.edited
    /\ Text = Str_blake3
    /\ back.ret = Err(<<"InvalidFormat">>)

\* The digit pair i of the text behind the "="
DigitPair(i) == <<Text[FirstEq + 2 * i - 1], Text[FirstEq + 2 * i]>>

\* The value of a lower case hexadecimal digit, 16 for any other byte
LowerHex(c) == IF c >= 48 /\ c <= 57 THEN c - 48 ELSE IF c >= 97 /\ c <= 102 THEN c - 87 ELSE 16

\* C17: formatting a Checksum does not fail and gives the name of its
\* algorithm, "=", and 64 lower case hexadecimal digits, two for each of the
\* 32 bytes of its value in their order.
C17_TextForm ==
    (shown.called /\ ~shown.edited) =>
        /\ is_ok(shown.ret) /\ shown.ret[2] = Text
        /\ NamePart = (IF unwrap(sum).algo = Sha256 THEN Str_sha256 ELSE Str_blake3)
        /\ Len(Text) = FirstEq + 2 * 32
        /\ \A i \in 1..32 :
              /\ LowerHex(DigitPair(i)[1]) < 16 /\ LowerHex(DigitPair(i)[2]) < 16
              /\ 16 * LowerHex(DigitPair(i)[1]) + LowerHex(DigitPair(i)[2]) = unwrap(sum).value[i]

\* A sha256 checksum of ab 00 .. 00 0f was formatted to sha256=ab00..000f.
C17_Witness ==
    /\ shown.called /\ ~shown.edited
    /\ unwrap(sum) = Checksum_new(Sha256, Digest1)
    /\ Len(Text) = 71
    /\ SubSeq(Text, 1, 9) = Str_sha256 \o <<61, 97, 98>>
    /\ SubSeq(Text, 70, 71) = <<48, 102>>

----------------------------------------------------------------------------
(* Properties of Checksum::compute, checked under HashSpec.                 *)

\* The sum of the sizes of the reads
RECURSIVE SumOf(_, _)
SumOf(reads, i) == IF i > Len(reads) THEN 0 ELSE reads[i] + SumOf(reads, i + 1)

\* C18: the hasher is fed the bytes the reader has handed out, in their
\* order and once each; a call that returns Ok returns the reference digest
\* of the whole input under its algorithm, however the input was split into
\* reads, and has stopped at its first read of 0 bytes; a call in which a
\* read failed returns the error and no Checksum.
C18_DigestOfInput ==
    digest.called =>
        /\ digest.hasher = SubSeq(contents.bytes, 1, contents.pos)
        /\ SumOf(digest.reads, 1) = contents.pos
        /\ computed.called =>
              \/ /\ computed.ret = Ok(Checksum_new(digest.algo,
                                                   reference_digest(digest.algo, contents.bytes)))
                 /\ digest.reads[Len(digest.reads)] = 0
                 /\ \A i \in 1..(Len(digest.reads) - 1) : digest.reads[i] > 0
              \/ /\ computed.ret = Err(<<"io::Error">>)
                 /\ \A i \in 1..Len(digest.reads) : digest.reads[i] > 0

\* An input longer than the buffer came in a short read, a full one and
\* another short one, and its blake3 digest was returned.
C18_Witness ==
    /\ computed.called /\ is_ok(computed.ret)
    /\ digest.algo = Blake3
    /\ Len(contents.bytes) = MaxInput /\ MaxInput > BufLen
    /\ digest.reads = <<1, BufLen, MaxInput - BufLen - 1, 0>>
    /\ computed.ret[2].value = reference_digest(Blake3, contents.bytes)

----------------------------------------------------------------------------
(* Properties of the two workers, checked under PairSpec.                   *)

\* What translate_dep_info does for unit u when it runs alone, with the
\* file of rustc of the unit and the order the call took the files in
Alone(u) ==
    translate_dep_info(fsys[rustc_dep_info(u)], jobs[u].order, UnitArgs(u).rustc_cwd,
                       UnitArgs(u).pkg_root, UnitArgs(u).target_root, UnitArgs(u).envs,
                       UnitArgs(u).allow_package, UnitArgs(u).env_config)

----------------------------------------------------------------------------
(* Properties of the loop of parse_rustc_dep_info, checked under LoopSpec.  *)

\* The line the loop is at holds ": " and is no env-dep line
AtColonLine ==
    /\ AtLine
    /\ ~is_some(str_strip_prefix(lp.ls[lp.i], Str_env_dep))
    /\ is_some(find(lp.ls[lp.i], Str_colon_space))

\* C21: only the first line with ": " is honored as the dependency line.
\* found_deps is set by the step over such a line and by no other step, and
\* it stays set; once it is set, a step over a line with ": " leaves files
\* as it is and does not fail, whatever the line lists, and a step over any
\* other line adds no file without a checksum, so the files of the
\* dependency line are never added to again.
C21_FirstDepsLineOnly ==
    [][/\ (AtColonLine /\ lp'.pc = "loop") => lp'.found_deps
       /\ (lp'.found_deps # lp.found_deps) => (AtColonLine /\ ~lp.found_deps)
       /\ (lp.found_deps /\ AtColonLine) =>
             (lp'.pc = "loop" /\ lp'.ret = lp.ret)
       /\ (lp.found_deps /\ AtLine) =>
             \A path \in DOMAIN lp'.ret.files :
                 path \notin DOMAIN lp.ret.files => lp'.ret.files[path] # None]_vars

\* The loop is behind o: a b\ c.rs and p: z, and z is no file
C21_Witness ==
    /\ lp.pc = "loop"
    /\ lp.ls = <<Line_deps, Line_deps_other>>
    /\ lp.i = 3
    /\ DOMAIN lp.ret.files = {Str_a, Str_b_c_rs}

\* A token ends in a backslash
Continued(tok) == tok[Len(tok)] = 92

\* The tokens a file name starts with: the first, and each behind a token
\* that does not end in a backslash
NameStarts(toks) == {j \in 1..Len(toks) : j = 1 \/ ~Continued(toks[j - 1])}

\* The last token of the name that starts with token j, 0 when every token
\* from j on ends in a backslash
NameEnd(toks, j) ==
    IF \A e \in j..Len(toks) : Continued(toks[e]) THEN 0
    ELSE CHOOSE e \in j..Len(toks) :
            ~Continued(toks[e]) /\ \A d \in j..(e - 1) : Continued(toks[d])

\* Tokens j..e as one name: each but the last has a blank for its backslash
RECURSIVE NameOf(_, _, _)
NameOf(toks, j, e) ==
    IF j = e THEN toks[j]
    ELSE SubSeq(toks[j], 1, Len(toks[j]) - 1) \o <<32>> \o NameOf(toks, j + 1, e)

Names(toks) == {NameOf(toks, j, NameEnd(toks, j)) : j \in NameStarts(toks)}

\* The loop is at the line o: <toks>, the first with ": "
AtDepLine(toks, sep) ==
    AtColonLine /\ ~lp.found_deps /\ lp.ls[lp.i] = DepLine(toks, sep)

\* C22: the tokens of the dependency line are the runs of non-whitespace
\* behind the first ": "; a token that ends in a backslash is joined to the
\* next one with a single blank in the place of the backslash, again and
\* again while the joined name ends in a backslash, so each token belongs
\* to one name.  When the last token does not end in a backslash, the step
\* adds these names to files, each with no checksum unless it has one, and
\* changes nothing else.
C22_Tokenization ==
    [][\A toks \in SeqsUpTo(TokPool, MaxToks), sep \in TokSeps :
          (AtDepLine(toks, sep) /\ (toks = <<>> \/ ~Continued(toks[Len(toks)]))) =>
              /\ lp'.pc = "loop"
              /\ lp'.ret.env = lp.ret.env
              /\ lp'.ret.files =
                    [path \in DOMAIN lp.ret.files \cup Names(toks) |->
                        IF path \in DOMAIN lp.ret.files THEN lp.ret.files[path] ELSE None]]_vars

\* Behind the line o: b\ c\\ a with tabs: the one file "b c\ a"
C22_Witness ==
    /\ lp.pc = "loop"
    /\ lp.file = <<DepLine(<< <<98, 92>>, <<99, 92, 92>>, <<97>> >>, <<9, 32>>)>>
    /\ lp.i = 2
    /\ DOMAIN lp.ret.files = {<<98, 32, 99, 92, 32, 97>>}

\* C23: when the last token of the dependency line ends in a backslash,
\* the step over that line ends the call with the error of the malformed
\* format: no record is returned, whatever files and env entries the lines
\* and tokens before have given.
C23_TrailingBackslashFails ==
    [][\A toks \in SeqsUpTo(TokPool, MaxToks), sep \in TokSeps :
          (AtDepLine(toks, sep) /\ toks # <<>> /\ Continued(toks[Len(toks)])) =>
              /\ lp'.pc = "done"
              /\ lp'.out = Some(Err(<<"malformed dep-info format, trailing \\">>))]_vars

\* # env-dep:FOO=bar and o: a b\ were read: an env entry and the file a
\* came before the token b\, and the call has failed
C23_Witness ==
    /\ lp.pc = "done"
    /\ lp.file = <<Line_env, DepLine(<< <<97>>, <<98, 92>> >>, <<32>>)>>
    /\ Len(lp.ret.env) = 1
    /\ lp.out = Some(Err(<<"malformed dep-info format, trailing \\">>))

\* The loop is at a line that starts with # env-dep:
AtEnvLine == AtLine /\ is_some(str_strip_prefix(lp.ls[lp.i], Str_env_dep))

\* The text behind the marker, and where it has a =
EnvText == SubSeq(lp.ls[lp.i], Len(Str_env_dep) + 1, Len(lp.ls[lp.i]))

EnvEqs == {k \in 1..Len(EnvText) : EnvText[k] = 61}

\* The name is what stands before the first =, the value what stands behind it
EnvName == IF EnvEqs = {} THEN EnvText ELSE SubSeq(EnvText, 1, Min(EnvEqs) - 1)

EnvValue ==
    IF EnvEqs = {} THEN None ELSE Some(SubSeq(EnvText, Min(EnvEqs) + 1, Len(EnvText)))

\* Name and value have no malformed escape
EnvUnescapes ==
    /\ is_ok(unescape_env(EnvName))
    /\ is_some(EnvValue) => is_ok(unescape_env(unwrap(EnvValue)))

\* C24: the step over a line that starts with # env-dep: and whose escapes
\* are well formed appends one entry to env and changes nothing else, so the
\* entries stand in the order of their lines; the name is the unescaped text
\* before the first =, the value the unescaped text behind it (with every
\* further =, or empty), and None when the text has no =.  files and
\* found_deps stay as they are, also when the line holds ": ".
C24_EnvEntry ==
    [][(AtEnvLine /\ EnvUnescapes) =>
          /\ lp'.pc = "loop"
          /\ lp'.i = lp.i + 1
          /\ lp'.found_deps = lp.found_deps
          /\ lp'.ret.files = lp.ret.files
          /\ lp'.ret.env =
                Append(lp.ret.env,
                       <<unescape_env(EnvName)[2],
                         IF is_some(EnvValue) THEN Some(unescape_env(unwrap(EnvValue))[2])
                         ELSE None>>)]_vars

\* Behind # env-dep:X: y=1 and # env-dep:A=b=c: the entries ("X: y", "1")
\* and ("A", "b=c") in this order, and no dependency line seen
C24_Witness ==
    /\ lp.pc = "loop"
    /\ lp.i = 3
    /\ ~lp.found_deps
    /\ lp.ret.files = HashMap_new
    /\ lp.ret.env = << <<<<88, 58, 32, 121>>, Some(<<49>>)>>,
                       <<<<65>>, Some(<<98, 61, 99>>)>> >>

\* A backslash that starts an escape: the backslashes right before it come
\* in pairs
EscapeAt(t, i) ==
    /\ t[i] = 92
    /\ Cardinality({k \in 1..(i - 1) : \A j \in k..(i - 1) : t[j] = 92}) % 2 = 0

\* An escape that is none: its backslash is the last character, or the
\* character behind it is not \, n or r
BadEscape(t) ==
    \E i \in 1..Len(t) : EscapeAt(t, i) /\ (i = Len(t) \/ t[i + 1] \notin {92, 110, 114})

\* The characters that are kept, and what each becomes
KeptAt(t) == {i \in 1..Len(t) : ~EscapeAt(t, i)}

UnescapedAt(t, i) ==
    IF i > 1 /\ EscapeAt(t, i - 1)
    THEN (IF t[i] = 110 THEN 10 ELSE IF t[i] = 114 THEN 13 ELSE t[i])
    ELSE t[i]

Unescaped(t) == [k \in 1..Cardinality(KeptAt(t)) |-> UnescapedAt(t, Nth(KeptAt(t), k))]

\* The entry the step has appended
LastEnv == lp'.ret.env[Len(lp'.ret.env)]

\* C25: in the name and the value of an env-dep line \\ becomes \, \n a
\* newline, \r a carriage return, and every other character is copied.  A
\* backslash before any other character or at the end ends the call with an
\* error and no record.  What rustc writes for a name or a value (\, newline
\* and carriage return escaped) is read back as that name or value.
C25_Unescape ==
    [][/\ (AtEnvLine /\ (BadEscape(EnvName)
                          \/ (is_some(EnvValue) /\ BadEscape(unwrap(EnvValue))))) =>
             (lp'.pc = "done" /\ is_some(lp'.out) /\ ~is_ok(unwrap(lp'.out)))
       /\ (AtEnvLine /\ ~BadEscape(EnvName)
                     /\ (is_some(EnvValue) => ~BadEscape(unwrap(EnvValue)))) =>
             /\ lp'.pc = "loop"
             /\ Len(lp'.ret.env) = Len(lp.ret.env) + 1
             /\ LastEnv[1] = Unescaped(EnvName)
             /\ LastEnv[2] = IF is_some(EnvValue) THEN Some(Unescaped(unwrap(EnvValue)))
                             ELSE None
       /\ \A v \in RawValues :
             /\ (AtEnvLine /\ lp.ls[lp.i] = WrittenLine(v)) =>
                   (lp'.pc = "loop" /\ LastEnv = <<<<70>>, Some(v)>>)
             /\ (AtEnvLine /\ lp.ls[lp.i] = WrittenName(v) /\ (\A k \in 1..Len(v) : v[k] # 61)) =>
                   (lp'.pc = "loop" /\ LastEnv = <<v, None>>)]_vars

\* # env-dep:x=\ was read: the value ends in a backslash and the call has
\* failed
C25_Witness ==
    /\ lp.pc = "done"
    /\ lp.file = <<Str_env_dep \o <<120, 61, 92>>>>
    /\ lp.out = Some(Err(<<"unterminated escape character">>))

\* The path and the (file_len, checksum) of the well-formed checksum lines
Annotation(line) ==
    IF line = Line_ck_a_again THEN Some(<<Str_a, <<20, Checksum_new(Sha256, Digest1)>> >>)
    ELSE IF line = Line_ck_z THEN Some(<<<<122>>, <<5, Checksum_new(Sha256, Digest1)>> >>)
    ELSE Attached(line)

\* files with the annotation of a line put in
Annotated(files, note) ==
    [path \in DOMAIN files \cup {note[1]} |->
        IF path = note[1] THEN Some(note[2]) ELSE files[path]]

\* C26: the step over a line that starts with # checksum: and has three
\* well-formed fields puts the line's (file_len, checksum) in files under
\* the line's path, whatever the path holds and whether or not the
\* dependency line has been seen, and changes nothing else: found_deps
\* stays as it is, so the line is not taken for the dependency line.
C26_ChecksumLineProcessed ==
    [][(AtLine /\ is_some(Annotation(lp.ls[lp.i]))) =>
          /\ lp'.pc = "loop"
          /\ lp'.found_deps = lp.found_deps
          /\ lp'.ret.env = lp.ret.env
          /\ lp'.ret.files = Annotated(lp.ret.files, unwrap(Annotation(lp.ls[lp.i])))]_vars

\* The loop takes the branch of lines 364-380 for a well-formed line
AtChecksumLine ==
    /\ AtLine
    /\ ~is_some(find(lp.ls[lp.i], Str_colon_space))
    /\ is_some(Annotation(lp.ls[lp.i]))

\* The well-formed checksum lines for a path that the loop takes as such
ProcessedFor(path) ==
    {k \in 1..Len(lp.ls) :
        /\ ~is_some(find(lp.ls[k], Str_colon_space))
        /\ is_some(Annotation(lp.ls[k]))
        /\ unwrap(Annotation(lp.ls[k]))[1] = path}

\* The last of some lines
Latest(S) == CHOOSE k \in S : \A j \in S : j <= k

\* C28: when the loop has processed a well-formed checksum line for a path,
\* files has the line's (file_len, checksum) under that path: the path is
\* added when it is not there, listed or not, and what it had is replaced.
\* So in the record returned each such path has what its last line says.
C28_LastChecksumWins ==
    [][/\ AtChecksumLine =>
             /\ lp'.pc = "loop"
             /\ lp'.ret.files = Annotated(lp.ret.files, unwrap(Annotation(lp.ls[lp.i])))
       /\ (lp.pc = "loop" /\ lp'.pc = "done" /\ is_ok(unwrap(lp'.out))) =>
             \A path \in {Str_a, Str_b_c_rs, <<122>>} :
                 ProcessedFor(path) # {} =>
                     /\ path \in DOMAIN unwrap(lp'.out)[2].files
                     /\ unwrap(lp'.out)[2].files[path] =
                           Some(unwrap(Annotation(lp.ls[Latest(ProcessedFor(path))]))[2])]_vars

\* Behind two checksum lines for a, file_len 10 and then 20, and no
\* dependency line: a has file_len 20
C28_Witness ==
    /\ lp.pc = "loop"
    /\ lp.ls = <<Line_ck_a, Line_ck_a_again>>
    /\ lp.i = 3
    /\ ~lp.found_deps
    /\ lp.ret.files = (Str_a :> Some(<<20, Checksum_new(Sha256, Digest1)>>))

----------------------------------------------------------------------------
(* The life of one persisted record, checked under Spec.                    *)

\* The stored entry i stems from a path of the file of rustc parsed last
FromNative(i) ==
    \E f \in DOMAIN NativeRecord.files :
        Classified(f) = Some(<<Stored.files[i][1], Stored.files[i][2]>>)

----------------------------------------------------------------------------
(* The end of the input and the flag bytes, checked under CodecSpec.        *)

\* C29: parse does not ask for the input to end behind the env section: for
\* the serialization of a record followed by any bytes it returns Some of
\* that record and leaves the bytes that follow unread.
C29_TrailingBytesIgnored ==
    (how = "extended" /\ Parsed) =>
        /\ res.kind = "Some"
        /\ res.info = rec
        /\ serialize(rec) \o res.rest = data
        /\ res.rest \in TrailingBytes

\* A record of two files and an env entry, followed by the four bytes of a
\* count of one, was parsed
C29_Witness ==
    /\ how = "extended" /\ res.kind = "Some"
    /\ Len(rec.files) = 2 /\ Len(rec.env) = 1
    /\ is_some(rec.files[2][3])
    /\ res.rest = <<1, 0, 0, 0>>

\* Where the has_checksum byte of file i and the has_value byte of env entry
\* j stand in the serialization of rec
HasChecksumAt(i) ==
    Len(serialize([files |-> SubSeq(rec.files, 1, i - 1), env |-> <<>>])) - 4
        + 1 + 4 + Len(rec.files[i][2]) + 1

HasValueAt(j) ==
    Len(serialize([files |-> rec.files, env |-> SubSeq(rec.env, 1, j - 1)]))
        + 4 + Len(rec.env[j][1]) + 1

\* The one byte of the serialization that was changed
DamagedIn(written) == CHOOSE k \in 1..Len(data) : data[k] # written[k]

DamagedAt == DamagedIn(serialize(rec))

\* The byte at k was changed: what the decoder made of it when it is a flag
FlagsDecoded(k) ==
    /\ \A i \in 1..Len(rec.files) :
          k = HasChecksumAt(i) =>
              /\ Len(res.file_reads) >= i
              /\ res.file_reads[i].has_checksum = Some(data[k] # 0)
              /\ res.file_reads[i].pushed
              /\ (is_some(rec.files[i][3]) /\ data[k] # 0) =>
                    (res.kind = "Some" /\ res.info = rec)
    /\ \A j \in 1..Len(rec.env) :
          (k = HasValueAt(j) /\ data[k] \notin {0, 1}) =>
              /\ res.kind = "None"
              /\ res.env_reads[j].has_value = Some(data[k])
              /\ ~res.env_reads[j].pushed

\* C30: the two flags are decoded differently.  A has_checksum byte that is
\* not 0 stands for a checksum, whatever its value, and the entry is pushed:
\* when the byte was 1 the record is decoded as it was written.  A has_value
\* byte other than 0 and 1 makes parse return None.  serialize writes 1 for
\* a flag that holds and 0 for one that does not.
C30_FlagBytes ==
    /\ (how = "damaged" /\ Parsed) => FlagsDecoded(DamagedAt)
    /\ how = "serialized" =>
          /\ \A i \in 1..Len(rec.files) :
                data[HasChecksumAt(i)] = IF is_some(rec.files[i][3]) THEN 1 ELSE 0
          /\ \A j \in 1..Len(rec.env) :
                data[HasValueAt(j)] = IF is_some(rec.env[j][2]) THEN 1 ELSE 0

\* The has_checksum byte of the second file was changed from 1 to 128, and
\* the record was decoded as it was written
C30_Witness ==
    /\ how = "damaged" /\ res.kind = "Some"
    /\ Len(rec.files) = 2 /\ Len(rec.env) = 1
    /\ DamagedAt = HasChecksumAt(2)
    /\ data[DamagedAt] = 128
    /\ res.info = rec
    /\ is_some(res.info.files[2][3])

====
